---- MODULE Spec2Model ----
(***************************************************************************)
(* State-machine model of the job-handling and caching code of the         *)
(* screenplay breakdown service.                                           *)
(*                                                                         *)
(*   Part 1  AdvancedJobManager   (ultimate_advanced_python_brain_service)  *)
(*   Part 2  JobManager, TaskProcessor and the job endpoints                *)
(*           (advanced_python_brain_service)                               *)
(*   Part 3  JobManager and process_analysis (python_brain_service)         *)
(*   Part 4  AdvancedCacheManager (performance_optimized_brain_service)     *)
(*   Part 5  split_scenes, main_async, analyze_scene and SceneContextGraph  *)
(*           (ultimate_breakdown_system)                                   *)
(*                                                                         *)
(* Job ids are uuid4 strings in the code; they are modelled by the number  *)
(* of the create_job call that generated them (1, 2, ...), so a smaller id *)
(* is an earlier submission.  datetime.now() is the variable now.          *)
(***************************************************************************)
EXTENDS Integers, Sequences, FiniteSets, TLC

VARIABLES
    jobs,                 \* AdvancedJobManager.jobs: job id -> job record
    job_queue,            \* AdvancedJobManager.job_queue: list of job ids
    job_counts,           \* AdvancedJobManager.job_counts: status -> count
    job_priorities,       \* AdvancedJobManager.job_priorities: job id -> weight
    active_jobs,          \* AdvancedJobManager.active_jobs (keys only)
    max_concurrent_jobs,  \* AdvancedJobManager.max_concurrent_jobs
    cache,                \* AdvancedJobManager.cache: cache key -> entry
    uuid_ctr,             \* number of job ids generated so far
    now,                  \* the clock read by datetime.now()
    ret,                  \* the last call of the manager, the value it returned
                          \* and the exception it raised (None: it raised none)
    svc_jobs,             \* advanced service: JobManager.jobs
    svc_active_jobs,      \* advanced service: JobManager.active_jobs (keys only)
    svc_tasks,            \* advanced service: the background tasks, by job id
    svc_ctr,              \* advanced service: number of job ids generated
    cancel_ret,           \* advanced service: the last cancel_job call
    pbs_jobs,             \* brain service: JobManager.jobs
    pbs_max_jobs,         \* brain service: JobManager.max_jobs
    pbs_tasks,            \* brain service: the background tasks, by job id
    pbs_ctr,              \* brain service: number of job ids generated
    cm_cache,             \* cache manager: cache, key -> entry
    cm_access_times,      \* cache manager: access_times, in dict order
    cm_cache_size_bytes,  \* cache manager: cache_size_bytes
    cm_max_size_bytes,    \* cache manager: max_size_bytes
    cm_default_ttl,       \* cache manager: default_ttl
    cm_hits,              \* cache manager: hits
    cm_misses,            \* cache manager: misses
    cm_ret,               \* cache manager: the last call, its time and result
    content,              \* breakdown run: the script read by main_async
    scenes_data,          \* breakdown run: the result of split_scenes
    scene_idx,            \* breakdown run: position of the loop in scenes_data
    scenes,               \* breakdown run: the breakdowns produced so far
    character_timeline,   \* context graph: character -> entries
    prop_registry,        \* context graph: prop -> scene numbers
    location_history,     \* context graph: location -> scene numbers
    finished_runs,        \* brain service: the continuity checks answered so far
    clf_text,             \* props: the text of a scene, the phrases it holds
    clf_location,         \* props: the location of the scene's breakdown
    clf_item,             \* props: the item of a classify_prop call
    clf_ret,              \* props: what the classify_prop call returned
    clf_breakdown,        \* props: the breakdown after the enrichment pass
    hdr_block,            \* breakdown engine: the block given to _process_block
    hdr_location,         \* breakdown engine: the location of the parsed scene
    an_in,                \* scene analysis: the parser, its config, the text of
                          \* the scene and the analyzer that raises, if one does
    an_pc,                \* scene analysis: the position in analyze_scene
    an_ran,               \* scene analysis: the analyzers run so far, in order
    an_out,               \* scene analysis: the breakdown analyze_scene returns
    lock,                 \* AdvancedJobManager.lock: the thread that holds it
    threads               \* the threads calling the manager: the position of
                          \* each in its call, and the locals of the call

jm_vars == <<jobs, job_queue, job_counts, job_priorities, active_jobs,
             max_concurrent_jobs, cache, uuid_ctr, ret>>

svc_vars == <<svc_jobs, svc_active_jobs, svc_tasks, svc_ctr, cancel_ret>>

pbs_vars == <<pbs_jobs, pbs_max_jobs, pbs_tasks, pbs_ctr>>

cm_vars == <<cm_cache, cm_access_times, cm_cache_size_bytes, cm_max_size_bytes,
             cm_default_ttl, cm_hits, cm_misses, cm_ret>>

run_vars == <<content, scenes_data, scene_idx, scenes, character_timeline,
              prop_registry, location_history, finished_runs>>

clf_vars == <<clf_text, clf_location, clf_item, clf_ret, clf_breakdown>>

an_vars == <<hdr_block, hdr_location, an_in, an_pc, an_ran, an_out>>

th_vars == <<lock, threads>>

vars == <<jm_vars, svc_vars, pbs_vars, cm_vars, run_vars, clf_vars, an_vars,
          th_vars, now>>

----------------------------------------------------------------------------
(* Bounds of the model *)

\* create_job calls explored by SpecJM
MaxCreate == 3

\* create_job calls explored by SpecQueue
MaxQueueJobs == 4

\* create_job calls explored by SpecSubmit
MaxSubmit == 3

\* jobs submitted to the two services together under SpecProc
MaxProcJobs == 3

\* scene markers of a script under SpecContinuation, SpecNotes and SpecRun
MaxScenes == 3

\* seconds the clock advances under SpecCache
MaxTime == 4

\* lookups of the cache manager under SpecCache
MaxGets == 3

\* set is called under SpecCache while cache_size_bytes is at most this
MaxCacheBytes == 6

\* phrases of the text of a scene under SpecProps
MaxPhrases == 4

\* create_job calls of the basic job store under SpecStore
MaxStoreJobs == 102

\* continuity checks requested from the brain service under SpecService
MaxRequests == 2

----------------------------------------------------------------------------
(* Part 1: AdvancedJobManager *)

\* an optional value is a sequence of at most one element: None, or <<x>>
None == <<>>
Some(x) == <<x>>

\* a RevolutionarySceneParser whose PropClassifier has classified nothing
NewPropClassifier ==
    /\ clf_text = {}
    /\ clf_location = <<>>
    /\ clf_item = <<>>
    /\ clf_ret = None
    /\ clf_breakdown = None

\* the threads that call the manager
Threads == {"t1", "t2"}

\* a thread that is in no call of the manager
Idle == [pc |-> "idle", job_id |-> 0, status |-> "", at |-> 0]

\* Lock() is free and no thread is in a call of the manager
NoThreads ==
    /\ lock = None
    /\ threads = [t \in Threads |-> Idle]

\* no block is parsed and no scene is analysed
NoSceneAnalysis ==
    /\ hdr_block = None
    /\ hdr_location = None
    /\ an_in = None
    /\ an_pc = "idle"
    /\ an_ran = <<>>
    /\ an_out = None

PENDING == "pending"
PROCESSING == "processing"
COMPLETED == "completed"
FAILED == "failed"
CANCELLED == "cancelled"
PAUSED == "paused"

JobStatus == {PENDING, PROCESSING, COMPLETED, FAILED, CANCELLED, PAUSED}

Priority == {"low", "normal", "high", "urgent", "critical"}

\* the requests submitted under SpecJM and SpecQueue: two priorities
RequestsJM ==
    [text : {"a"}, component : {"scene_salience"}, confidence_threshold : {7},
     priority : {"normal", "critical"}, cache_results : {FALSE}]

\* the values given to the constructor argument max_concurrent_jobs
ConcurrencyArgs == {0, 2}

cache_ttl == 3600

priority_weights ==
    [p \in Priority |->
        CASE p = "low" -> 1
          [] p = "normal" -> 2
          [] p = "high" -> 3
          [] p = "urgent" -> 4
          [] p = "critical" -> 5]

\* priority_weights.get(request.priority.value, 2)
PriorityWeight(p) == IF p \in DOMAIN priority_weights THEN priority_weights[p] ELSE 2

\* md5 of "text_component_threshold": equal exactly for equal triples
_generate_cache_key(request) ==
    <<request.text, request.component, request.confidence_threshold>>

\* self.job_priorities.get(queued_job_id, 1)
PriorityOf(prios, job_id) == IF job_id \in DOMAIN prios THEN prios[job_id] ELSE 1

SetMin(S) == CHOOSE x \in S : \A y \in S : x <= y

\* [mutant] inserts before the first entry that is not of higher weight
AddToQueueNotStable(queue, prios, job_id, priority_weight) ==
    LET lower == {i \in 1..Len(queue) :
                     PriorityOf(prios, queue[i]) <= priority_weight}
    IN  IF lower = {} THEN Append(queue, job_id)
        ELSE LET i == SetMin(lower)
             IN  SubSeq(queue, 1, i - 1) \o <<job_id>> \o SubSeq(queue, i, Len(queue))

\* inserts job_id before the first queued id of strictly lower weight,
\* or appends it when there is none
_add_to_queue_by_priority(queue, prios, job_id, priority_weight) ==
    LET lower == {i \in 1..Len(queue) :
                     PriorityOf(prios, queue[i]) < priority_weight}
    IN  IF lower = {} THEN Append(queue, job_id)
        ELSE LET i == SetMin(lower)
             IN  SubSeq(queue, 1, i - 1) \o <<job_id>> \o SubSeq(queue, i, Len(queue))

\* list.remove(x): drops the first occurrence of x
ListRemove(queue, x) ==
    LET at == {i \in 1..Len(queue) : queue[i] = x}
    IN  IF at = {} THEN queue
        ELSE LET i == SetMin(at)
             IN  SubSeq(queue, 1, i - 1) \o SubSeq(queue, i + 1, Len(queue))

InQueue(queue, x) == \E i \in 1..Len(queue) : queue[i] = x

\* the cache test of create_job: opted in, key present, entry younger than ttl
CacheFresh(request) ==
    LET cache_key == _generate_cache_key(request)
    IN  /\ request.cache_results
        /\ cache_key \in DOMAIN cache
        /\ now - cache[cache_key].timestamp < cache_ttl

create_job(request) ==
    LET job_id == uuid_ctr + 1
        cache_key == _generate_cache_key(request)
        priority_weight == PriorityWeight(request.priority)
    IN  /\ uuid_ctr' = job_id
        /\ IF CacheFresh(request)
           THEN UNCHANGED <<jobs, job_counts, job_priorities, job_queue>>
           ELSE /\ jobs' = jobs @@ (job_id :>
                              [status |-> PENDING,
                               priority |-> request.priority,
                               cache_key |-> IF request.cache_results
                                             THEN Some(cache_key) ELSE None])
                /\ job_counts' = [job_counts EXCEPT ![PENDING] = @ + 1]
                /\ job_priorities' = job_priorities @@ (job_id :> priority_weight)
                /\ job_queue' = _add_to_queue_by_priority(
                                    job_queue, job_priorities', job_id, priority_weight)
        /\ ret' = [op |-> "create_job", val |-> job_id, raised |-> None]
        /\ UNCHANGED <<active_jobs, max_concurrent_jobs, cache, now>>
        /\ UNCHANGED <<run_vars, clf_vars, an_vars, th_vars, svc_vars, pbs_vars, cm_vars>>

Max0(n) == IF n > 0 THEN n ELSE 0

\* [mutant] the old status' counter is not decremented
CountsAfterNoDecrement(counts, old_status, status) ==
    [counts EXCEPT ![status] = @ + 1]

\* the counter update of update_job_status
CountsAfter(counts, old_status, status) ==
    LET dec == IF old_status \in DOMAIN counts
               THEN [counts EXCEPT ![old_status] = Max0(@ - 1)]
               ELSE counts
    IN  [dec EXCEPT ![status] = @ + 1]

\* the queue update of update_job_status
QueueAfter(queue, job_id, status) ==
    IF status \in {PROCESSING, COMPLETED, FAILED, CANCELLED} /\ InQueue(queue, job_id)
    THEN ListRemove(queue, job_id)
    ELSE queue

\* update_job_status(job_id, status) with no keyword arguments
update_job_status(job_id, status) ==
    /\ IF job_id \in DOMAIN jobs
       THEN LET old_status == jobs[job_id].status
            IN  /\ jobs' = [jobs EXCEPT ![job_id].status = status]
                /\ job_counts' = CountsAfter(job_counts, old_status, status)
                /\ job_queue' = QueueAfter(job_queue, job_id, status)
       ELSE UNCHANGED <<jobs, job_counts, job_queue>>
    /\ ret' = [op |-> "update_job_status", val |-> None, raised |-> None]
    /\ UNCHANGED <<job_priorities, active_jobs, max_concurrent_jobs, cache,
                   uuid_ctr, now>>
    /\ UNCHANGED <<run_vars, clf_vars, an_vars, th_vars, svc_vars, pbs_vars, cm_vars>>

\* [mutant] the head is returned without looking at its status
IsPendingJobAny(js, job_id) == job_id \in DOMAIN js

\* job_id in self.jobs and self.jobs[job_id].status == JobStatus.PENDING
IsPendingJob(js, job_id) == job_id \in DOMAIN js /\ js[job_id].status = PENDING

\* the loop of get_next_job_from_queue while there is capacity: pops the head
\* until it is a pending job; the result is the queue that is left
RECURSIVE PopStale(_, _)
PopStale(queue, js) ==
    IF queue = <<>> THEN <<>>
    ELSE IF IsPendingJob(js, Head(queue)) THEN queue
    ELSE PopStale(Tail(queue), js)

\* len(self.active_jobs) < self.max_concurrent_jobs
HasCapacity == Cardinality(active_jobs) < max_concurrent_jobs

get_next_job_from_queue ==
    LET left == IF HasCapacity THEN PopStale(job_queue, jobs) ELSE job_queue
    IN  /\ job_queue' = left
        /\ ret' = [op |-> "get_next_job_from_queue",
                   val |-> IF HasCapacity /\ left # <<>>
                           THEN Some(Head(left)) ELSE None,
                   raised |-> None]
        /\ UNCHANGED <<jobs, job_counts, job_priorities, active_jobs,
                       max_concurrent_jobs, cache, uuid_ctr, now>>
        /\ UNCHANGED <<run_vars, clf_vars, an_vars, th_vars, svc_vars, pbs_vars, cm_vars>>

\* AdvancedJobManager(max_concurrent_jobs = m)
NewAdvancedJobManager(m) ==
    /\ jobs = <<>>
    /\ job_queue = <<>>
    /\ job_counts = [s \in JobStatus |-> 0]
    /\ job_priorities = <<>>
    /\ active_jobs = {}
    /\ max_concurrent_jobs = m
    /\ cache = <<>>
    /\ uuid_ctr = 0
    /\ ret = [op |-> "init", val |-> None, raised |-> None]

(* SpecJM: every status may be requested for every job id *)
CreateJobJM ==
    /\ uuid_ctr < MaxCreate
    /\ \E request \in RequestsJM : create_job(request)

UpdateJobStatusJM ==
    \E job_id \in 1..MaxCreate, status \in JobStatus :
        update_job_status(job_id, status)

GetNextJobFromQueue == get_next_job_from_queue

NextJM == CreateJobJM \/ UpdateJobStatusJM \/ GetNextJobFromQueue

(* SpecQueue: more submissions, fewer statuses *)
CreateJobQueue ==
    /\ uuid_ctr < MaxQueueJobs
    /\ \E request \in RequestsJM : create_job(request)

UpdateJobStatusQueue ==
    \E job_id \in 1..MaxQueueJobs,
       status \in {PENDING, PROCESSING, COMPLETED, PAUSED} :
        update_job_status(job_id, status)

NextQueue == CreateJobQueue \/ UpdateJobStatusQueue \/ GetNextJobFromQueue

(* SpecSubmit: requests that differ in text and in the caching option *)
CreateJobSubmit ==
    /\ uuid_ctr < MaxSubmit
    /\ \E request \in [text : {"a", "b"}, component : {"scene_salience"},
                        confidence_threshold : {7}, priority : {"normal"},
                        cache_results : BOOLEAN] :
          create_job(request)

UpdateJobStatusSubmit ==
    \E job_id \in 1..MaxSubmit, status \in {PROCESSING, COMPLETED} :
        update_job_status(job_id, status)

NextSubmit == CreateJobSubmit \/ UpdateJobStatusSubmit \/ GetNextJobFromQueue

----------------------------------------------------------------------------
(* Claims about the AdvancedJobManager *)

Terminal == {COMPLETED, FAILED, CANCELLED}

QueueWeight(i) == PriorityOf(job_priorities, job_queue[i])

JobsIn(status) == {j \in DOMAIN jobs : jobs[j].status = status}

\* the submissions of the example: weights 2, 5, 2, 5 in this order, all queued
ExampleSubmitted ==
    /\ DOMAIN jobs = 1..4
    /\ job_priorities = <<2, 5, 2, 5>>
    /\ \A j \in 1..4 : InQueue(job_queue, j)

\* C1: in the queue every job of higher priority weight precedes every job of
\* lower weight, and queued jobs of equal weight are in submission order;
\* submitting weights 2, 5, 2, 5 gives the queue job2, job4, job1, job3.
C1_QueueOrdered ==
    /\ \A i, j \in 1..Len(job_queue) :
          i < j => \/ QueueWeight(i) > QueueWeight(j)
                   \/ /\ QueueWeight(i) = QueueWeight(j)
                      /\ job_queue[i] < job_queue[j]
    /\ ExampleSubmitted => job_queue = <<2, 4, 1, 3>>

C1_Witness == ExampleSubmitted /\ job_queue = <<2, 4, 1, 3>>

\* the status changes of the lifecycle pending -> processing -> terminal, and
\* the cancellation of a job that is still pending
Lifecycle ==
    {<<PENDING, PROCESSING>>, <<PENDING, CANCELLED>>}
        \cup {<<PROCESSING, t>> : t \in Terminal}

\* C2: every change of a job's status follows the lifecycle pending ->
\* processing -> {completed, failed, cancelled} (any other requested change is
\* rejected), so a job in a terminal status never changes status again.
C2_LifecycleEnforced ==
    [][\A j \in DOMAIN jobs :
          jobs'[j].status # jobs[j].status =>
              <<jobs[j].status, jobs'[j].status>> \in Lifecycle]_vars

\* C3: at every moment the number of jobs in status processing is at most
\* max_concurrent_jobs (jobs beyond the cap stay pending in the queue).
C3_ProcessingWithinCap ==
    Cardinality(JobsIn(PROCESSING)) <= max_concurrent_jobs

\* the positions of the queue that hold a pending job
PendingPositions ==
    {i \in 1..Len(job_queue) :
        /\ job_queue[i] \in DOMAIN jobs
        /\ jobs[job_queue[i]].status = PENDING}

\* C4: the dequeue operation returns no job when the number of active jobs is
\* at least max_concurrent_jobs; otherwise it returns the first queued id whose
\* job exists and is pending, having removed every id ahead of it, and no job
\* when the queue holds no such id; it never returns a job that is not pending.
C4_Dequeue ==
    [][ret'.op = "get_next_job_from_queue" =>
        /\ IF Cardinality(active_jobs) >= max_concurrent_jobs
           THEN ret'.val = None
           ELSE IF PendingPositions = {}
           THEN ret'.val = None /\ job_queue' = <<>>
           ELSE LET first == SetMin(PendingPositions)
                IN  /\ ret'.val = Some(job_queue[first])
                    /\ job_queue' = SubSeq(job_queue, first, Len(job_queue))
        /\ ret'.val # None =>
              /\ ret'.val[1] \in DOMAIN jobs'
              /\ jobs'[ret'.val[1]].status = PENDING]_vars

\* a dequeue that returned job 2 after job 1, paused while queued, was dropped
C4_Witness ==
    /\ ret.op = "get_next_job_from_queue"
    /\ ret.val = Some(2)
    /\ job_queue = <<2>>
    /\ 1 \in DOMAIN jobs /\ jobs[1].status = PAUSED
    /\ job_priorities[1] = job_priorities[2]

\* C5: each per-status counter equals the number of jobs in that status; after
\* three jobs went pending -> processing -> completed the completed count is 3
\* and the pending and processing counts are 0.
C5_CountersMatch ==
    /\ \A s \in JobStatus : job_counts[s] = Cardinality(JobsIn(s))
    /\ (DOMAIN jobs = 1..3 /\ \A j \in 1..3 : jobs[j].status = COMPLETED) =>
          /\ job_counts[COMPLETED] = 3
          /\ job_counts[PENDING] = 0
          /\ job_counts[PROCESSING] = 0

C5_Witness ==
    /\ DOMAIN jobs = 1..3
    /\ \A j \in 1..3 : jobs[j].status = COMPLETED
    /\ job_counts[COMPLETED] = 3

\* C6: a job id is in the queue exactly while its job is pending.
C6_QueuedIffPending ==
    \A j \in DOMAIN jobs : InQueue(job_queue, j) <=> jobs[j].status = PENDING

\* C7: a second submission of a (text, component, threshold) whose first job
\* has completed, made within cache_ttl with caching opted in, returns the id
\* of a completed job and queues no new pending job.
C7_SecondSubmissionServedFromCache ==
    (/\ ret.op = "create_job"
     /\ ret.val \in DOMAIN jobs
     /\ jobs[ret.val].cache_key # None
     /\ \E j \in DOMAIN jobs :
           /\ j < ret.val
           /\ jobs[j].cache_key = jobs[ret.val].cache_key
           /\ jobs[j].status = COMPLETED)
    => /\ jobs[ret.val].status = COMPLETED
       /\ ~InQueue(job_queue, ret.val)

\* C11: a transition requested for a job id that does not exist is surfaced to
\* the caller as an error, and leaves the job table, the counters and the queue
\* unchanged.
C11_UnknownJobIsAnError ==
    [][\A job_id \in 1..MaxCreate, status \in JobStatus :
          (job_id \notin DOMAIN jobs /\ update_job_status(job_id, status)) =>
              /\ ret'.raised # None
              /\ UNCHANGED <<jobs, job_counts, job_queue>>]_vars

----------------------------------------------------------------------------
(* Part 2: advanced_python_brain_service: JobManager, TaskProcessor, endpoints *)

default_max_concurrent_jobs == 10

\* JobManager()
NewServiceJobManager ==
    /\ svc_jobs = <<>>
    /\ svc_active_jobs = {}
    /\ svc_tasks = <<>>
    /\ svc_ctr = 0
    /\ cancel_ret = [op |-> "init"]

\* JobManager.create_job followed by background_tasks.add_task
\* ProcessingType, the processing types a JobRequest may have
ProcessingType ==
    {"scene_salience", "continuity_check", "revolutionary_breakdown",
     "ultimate_breakdown", "full_analysis"}

submit_job(request) ==
    LET job_id == svc_ctr + 1
    IN  /\ request.processing_type \in ProcessingType
        /\ svc_ctr' = job_id
        /\ svc_jobs' = svc_jobs @@ (job_id :>
                          [status |-> PENDING,
                           processing_type |-> request.processing_type,
                           result |-> None,
                           error_message |-> None])
        /\ svc_tasks' = svc_tasks @@ (job_id :>
                          [pc |-> "scheduled",
                           processing_type |-> request.processing_type,
                           raised |-> None,
                           absorbed |-> FALSE])
        /\ UNCHANGED <<svc_active_jobs, cancel_ret>>
        /\ UNCHANGED <<run_vars, clf_vars, an_vars, th_vars, jm_vars, pbs_vars, cm_vars, now>>

\* upload_script_file: a file of a type that is not allowed is refused with
\* HTTPException(400), and one whose bytes are not utf-8 with
\* HTTPException(500), before a job is created (the text of a pdf is made up
\* from its name, its bytes are not decoded); otherwise create_job stores the
\* job, and the background task is added only "if background_tasks", which
\* is None when the caller gives none
upload_script_file(file, processing_type, background_tasks) ==
    LET job_id == svc_ctr + 1
        allowed_types == {"text/plain", "application/pdf", "text/x-fountain"}
        decoded == file.content_type = "application/pdf" \/ file.utf8
    IN  /\ processing_type \in ProcessingType
        /\ IF file.content_type \in allowed_types /\ decoded
           THEN /\ svc_ctr' = job_id
                /\ svc_jobs' = svc_jobs @@ (job_id :>
                                  [status |-> PENDING,
                                   processing_type |-> processing_type,
                                   result |-> None,
                                   error_message |-> None])
                /\ svc_tasks' = IF background_tasks # None
                                THEN svc_tasks @@ (job_id :>
                                        [pc |-> "scheduled",
                                         processing_type |-> processing_type,
                                         raised |-> None,
                                         absorbed |-> FALSE])
                                ELSE svc_tasks
           ELSE UNCHANGED <<svc_ctr, svc_jobs, svc_tasks>>
        /\ UNCHANGED <<svc_active_jobs, cancel_ret>>
        /\ UNCHANGED <<run_vars, clf_vars, an_vars, th_vars, jm_vars, pbs_vars, cm_vars, now>>

\* JobManager.update_job_progress(job_id, progress, status)
update_job_progress(js, job_id, status) ==
    IF job_id \in DOMAIN js THEN [js EXCEPT ![job_id].status = status] ELSE js

\* process_job_background up to the first await of the analysis: process_job
\* marks the job as processing
svc_task_start(job_id) ==
    /\ job_id \in DOMAIN svc_tasks
    /\ svc_tasks[job_id].pc = "scheduled"
    /\ svc_jobs' = update_job_progress(svc_jobs, job_id, PROCESSING)
    /\ svc_tasks' = [svc_tasks EXCEPT ![job_id].pc = "running"]
    /\ UNCHANGED <<svc_active_jobs, svc_ctr, cancel_ret>>
    /\ UNCHANGED <<run_vars, clf_vars, an_vars, th_vars, jm_vars, pbs_vars, cm_vars, now>>

\* [mutant] the except branch of process_job does not record the exception
ProcessJobFailedSilently(js, job_id, e) ==
    update_job_progress(js, job_id, FAILED)

\* the except branch of process_job: the job fails and keeps str(e)
ProcessJobFailed(js, job_id, e) ==
    LET failed == update_job_progress(js, job_id, FAILED)
    IN  IF job_id \in DOMAIN failed
        THEN [failed EXCEPT ![job_id].error_message = Some(e)]
        ELSE failed

\* the end of the try block of process_job: the job completes with its result
ProcessJobCompleted(js, job_id, result) ==
    LET completed == update_job_progress(js, job_id, COMPLETED)
    IN  IF job_id \in DOMAIN completed
        THEN [completed EXCEPT ![job_id].result = Some(result)]
        ELSE completed

\* the processing types whose processor lets an exception through:
\* _process_scene_salience and _process_continuity_check have no handler, and
\* the two breakdown processors raise HTTPException; _process_full_analysis
\* catches the exception of each of its analyses and goes on
LetsExceptionsThrough(processing_type) ==
    processing_type \in {"scene_salience", "continuity_check",
                         "revolutionary_breakdown", "ultimate_breakdown"}

\* the rest of process_job for a job whose analyzer raises an exception of
\* text e
svc_task_analyzer_raises(job_id, e) ==
    /\ job_id \in DOMAIN svc_tasks
    /\ svc_tasks[job_id].pc = "running"
    /\ IF LetsExceptionsThrough(svc_tasks[job_id].processing_type)
       THEN /\ svc_jobs' = ProcessJobFailed(svc_jobs, job_id, e)
            /\ svc_tasks' = [svc_tasks EXCEPT ![job_id].pc = "done",
                                              ![job_id].raised = Some(e)]
       ELSE /\ svc_jobs' = ProcessJobCompleted(svc_jobs, job_id, "partial_results")
            /\ svc_tasks' = [svc_tasks EXCEPT ![job_id].pc = "done",
                                              ![job_id].absorbed = TRUE]
    /\ UNCHANGED <<svc_active_jobs, svc_ctr, cancel_ret>>
    /\ UNCHANGED <<run_vars, clf_vars, an_vars, th_vars, jm_vars, pbs_vars, cm_vars, now>>

\* the rest of process_job for a job whose analyzers all return; the
\* processors of the two breakdown types never return, for want of an engine
svc_task_analyzer_returns(job_id) ==
    /\ job_id \in DOMAIN svc_tasks
    /\ svc_tasks[job_id].pc = "running"
    /\ svc_tasks[job_id].processing_type
           \notin {"revolutionary_breakdown", "ultimate_breakdown"}
    /\ svc_jobs' = ProcessJobCompleted(svc_jobs, job_id, "results")
    /\ svc_tasks' = [svc_tasks EXCEPT ![job_id].pc = "done"]
    /\ UNCHANGED <<svc_active_jobs, svc_ctr, cancel_ret>>
    /\ UNCHANGED <<run_vars, clf_vars, an_vars, th_vars, jm_vars, pbs_vars, cm_vars, now>>

StatusOf(js, job_id) == IF job_id \in DOMAIN js THEN Some(js[job_id].status) ELSE None

\* JobManager.cancel_job, called by the DELETE /jobs/{job_id} endpoint
cancel_job(job_id) ==
    /\ IF job_id \in svc_active_jobs
       THEN /\ svc_active_jobs' = svc_active_jobs \ {job_id}
            /\ svc_tasks' = IF job_id \in DOMAIN svc_tasks
                            THEN [svc_tasks EXCEPT ![job_id].pc = "cancelled"]
                            ELSE svc_tasks
            /\ svc_jobs' = IF job_id \in DOMAIN svc_jobs
                           THEN [svc_jobs EXCEPT ![job_id].status = CANCELLED]
                           ELSE svc_jobs
            /\ cancel_ret' = [op |-> "cancel_job", job_id |-> job_id,
                              was |-> StatusOf(svc_jobs, job_id),
                              val |-> job_id \in DOMAIN svc_jobs]
       ELSE /\ UNCHANGED <<svc_active_jobs, svc_tasks, svc_jobs>>
            /\ cancel_ret' = [op |-> "cancel_job", job_id |-> job_id,
                              was |-> StatusOf(svc_jobs, job_id),
                              val |-> FALSE]
    /\ UNCHANGED svc_ctr
    /\ UNCHANGED <<run_vars, clf_vars, an_vars, th_vars, jm_vars, pbs_vars, cm_vars, now>>

----------------------------------------------------------------------------
(* Part 3: python_brain_service: JobManager and process_analysis *)

max_jobs == 100

\* the text process_analysis puts before str(e) (an Arabic phrase in the code)
ErrorPrefix == <<"job processing error: ">>

\* the text of the ValueError of process_component
UnsupportedComponent == <<"unsupported component">>

\* JobManager()
NewBrainJobManager ==
    /\ pbs_jobs = <<>>
    /\ pbs_max_jobs = max_jobs
    /\ pbs_tasks = <<>>
    /\ pbs_ctr = 0

\* the position of a job in sorted(self.jobs.items(), key=created_at): the sort
\* is stable and the dict is in insertion order, that is in order of job id
OlderThan(js, a, b) ==
    \/ js[a].created_at < js[b].created_at
    \/ js[a].created_at = js[b].created_at /\ a < b

\* [mutant] above max_jobs, the newest jobs are deleted
CleanupNewestJobs(js, limit) ==
    LET n == Cardinality(DOMAIN js)
    IN  IF n > limit
        THEN LET kept == {a \in DOMAIN js :
                             Cardinality({b \in DOMAIN js : OlderThan(js, b, a)})
                                 < limit}
             IN  [a \in kept |-> js[a]]
        ELSE js

\* JobManager._cleanup_old_jobs: above max_jobs, the oldest jobs are deleted
_cleanup_old_jobs(js, limit) ==
    LET n == Cardinality(DOMAIN js)
    IN  IF n > limit
        THEN LET kept == {a \in DOMAIN js :
                             Cardinality({b \in DOMAIN js : OlderThan(js, b, a)})
                                 >= n - limit}
             IN  [a \in kept |-> js[a]]
        ELSE js

\* JobManager.create_job followed by background_tasks.add_task (start_analysis);
\* the task is given the request, with its component and its text
start_analysis(request) ==
    LET job_id == pbs_ctr + 1
        added == pbs_jobs @@ (job_id :>
                    [status |-> PENDING, result |-> None, error |-> None,
                     created_at |-> now])
    IN  /\ pbs_ctr' = job_id
        /\ pbs_jobs' = _cleanup_old_jobs(added, pbs_max_jobs)
        /\ pbs_tasks' = pbs_tasks @@ (job_id :>
                          [pc |-> "scheduled", component |-> request.component,
                           text |-> request.text,
                           raised |-> None, absorbed |-> FALSE])
        /\ UNCHANGED pbs_max_jobs
        /\ UNCHANGED <<run_vars, clf_vars, an_vars, th_vars, jm_vars, svc_vars, cm_vars, now>>

\* JobManager.update_job(job_id, **fields)
update_job(js, job_id, fields) ==
    IF job_id \in DOMAIN js
    THEN [js EXCEPT ![job_id] =
            [f \in DOMAIN @ |-> IF f \in DOMAIN fields THEN fields[f] ELSE @[f]]]
    ELSE js

\* process_analysis up to the await of process_component
pbs_task_start(job_id) ==
    /\ job_id \in DOMAIN pbs_tasks
    /\ pbs_tasks[job_id].pc = "scheduled"
    /\ pbs_jobs' = update_job(pbs_jobs, job_id, [status |-> PROCESSING])
    /\ pbs_tasks' = [pbs_tasks EXCEPT ![job_id].pc = "running"]
    /\ UNCHANGED <<pbs_max_jobs, pbs_ctr>>
    /\ UNCHANGED <<run_vars, clf_vars, an_vars, th_vars, jm_vars, svc_vars, cm_vars, now>>

\* the components process_component dispatches; each of their processors
\* catches its analyzer's exceptions and returns a fallback result
Dispatched(component) ==
    component \in {"semantic_synopsis", "prop_classification", "wardrobe_inference",
                   "cinematic_patterns", "continuity_check", "revolutionary_analysis"}

\* the import of the revolutionary engine succeeds; it needs numpy and
\* aiofiles, which the repository does not bring along
REVOLUTIONARY_AVAILABLE == FALSE

\* the except branch of process_analysis
ProcessAnalysisFailed(js, job_id, e) ==
    update_job(js, job_id, [status |-> FAILED, error |-> Some(ErrorPrefix \o e)])

----------------------------------------------------------------------------
(* Part 4: performance_optimized_brain_service: AdvancedCacheManager *)

default_max_size_mb == 512

default_default_ttl == 3600

\* AdvancedCacheManager(max_size_mb, default_ttl)
NewAdvancedCacheManager(max_size_mb, default_ttl) ==
    /\ cm_cache = <<>>
    /\ cm_access_times = <<>>
    /\ cm_cache_size_bytes = 0
    /\ cm_max_size_bytes = max_size_mb * 1024 * 1024
    /\ cm_default_ttl = default_ttl
    /\ cm_hits = 0
    /\ cm_misses = 0
    /\ cm_ret = [op |-> "init", key |-> None, val |-> None, at |-> 0]

\* the data cached in the model are strings of data.chars ASCII characters;
\* json.dumps puts them between two quotes
_calculate_size(data) == data.chars + 2

Restrict(f, S) == [k \in S |-> f[k]]

\* self.access_times[key] = t: a key of the dict keeps its place, a new key
\* goes last
SetAccessTime(access_times, key, t) ==
    IF \E i \in 1..Len(access_times) : access_times[i].key = key
    THEN [i \in 1..Len(access_times) |->
             IF access_times[i].key = key
             THEN [key |-> key, time |-> t] ELSE access_times[i]]
    ELSE Append(access_times, [key |-> key, time |-> t])

\* del self.access_times[key], for each key of keys
DelAccessTimes(access_times, keys) ==
    LET Kept(p) == p.key \notin keys
    IN  SelectSeq(access_times, Kept)

\* AdvancedCacheManager._is_expired at time t
_is_expired(c, access_times, key, t) ==
    IF key \notin DOMAIN c
    THEN TRUE
    ELSE LET \* self.access_times.get(key)
             i == CHOOSE i \in 1..Len(access_times) : access_times[i].key = key
         IN  t - access_times[i].time > c[key].ttl

RECURSIVE sorted_keys(_)
\* sorted(self.access_times.keys(), key = access time): a stable sort
sorted_keys(access_times) ==
    IF access_times = <<>>
    THEN <<>>
    ELSE LET least == SetMin({access_times[i].time : i \in 1..Len(access_times)})
             i == SetMin({k \in 1..Len(access_times) : access_times[k].time = least})
             rest == [k \in 1..(Len(access_times) - 1) |->
                         IF k < i THEN access_times[k] ELSE access_times[k + 1]]
         IN  <<access_times[i].key>> \o sorted_keys(rest)

RECURSIVE SumSizes(_, _)
SumSizes(c, keys) ==
    IF keys = {}
    THEN 0
    ELSE LET k == CHOOSE k \in keys : TRUE
         IN  c[k].size + SumSizes(c, keys \ {k})

\* AdvancedCacheManager._evict_lru, on the three fields it changes
_evict_lru(st) ==
    IF DOMAIN st.cache = {}
    THEN st
    ELSE LET sorted == sorted_keys(st.access_times)
             quarter == Len(sorted) \div 4
             evict_count == IF quarter > 1 THEN quarter ELSE 1
             evicted == {sorted[i] : i \in 1..evict_count} \cap DOMAIN st.cache
         IN  [cache |-> Restrict(st.cache, DOMAIN st.cache \ evicted),
              access_times |-> DelAccessTimes(st.access_times, evicted),
              cache_size_bytes |-> st.cache_size_bytes - SumSizes(st.cache, evicted)]

RECURSIVE EvictWhileFull(_, _, _)
\* the while loop of set
EvictWhileFull(st, size, max_size_bytes) ==
    IF st.cache_size_bytes + size > max_size_bytes /\ DOMAIN st.cache # {}
    THEN EvictWhileFull(_evict_lru(st), size, max_size_bytes)
    ELSE st

\* AdvancedCacheManager.get(key)
cm_get(key) ==
    /\ IF _is_expired(cm_cache, cm_access_times, key, now)
       THEN /\ cm_cache' = Restrict(cm_cache, DOMAIN cm_cache \ {key})
            /\ cm_access_times' = DelAccessTimes(cm_access_times, {key} \cap DOMAIN cm_cache)
            /\ cm_misses' = cm_misses + 1
            /\ cm_ret' = [op |-> "get", key |-> Some(key), val |-> None, at |-> now]
            /\ UNCHANGED cm_hits
       ELSE /\ cm_access_times' = SetAccessTime(cm_access_times, key, now)
            /\ cm_hits' = cm_hits + 1
            /\ cm_ret' = [op |-> "get", key |-> Some(key),
                          val |-> Some(cm_cache[key].data), at |-> now]
            /\ UNCHANGED <<cm_cache, cm_misses>>
    /\ UNCHANGED <<cm_cache_size_bytes, cm_max_size_bytes, cm_default_ttl>>
    /\ UNCHANGED <<run_vars, clf_vars, an_vars, th_vars, jm_vars, svc_vars, pbs_vars, now>>

\* AdvancedCacheManager.set(key, data, ttl); the ttl of the entry is
\* "ttl or self.default_ttl"
cm_set(key, data, ttl) ==
    LET size == _calculate_size(data)
        st == EvictWhileFull([cache |-> cm_cache,
                              access_times |-> cm_access_times,
                              cache_size_bytes |-> cm_cache_size_bytes],
                             size, cm_max_size_bytes)
        entry == [data |-> data, size |-> size,
                  ttl |-> IF ttl = None \/ ttl = Some(0)
                          THEN cm_default_ttl ELSE ttl[1],
                  created |-> now]
    IN  /\ IF size > cm_max_size_bytes \div 4
           THEN /\ UNCHANGED <<cm_cache, cm_access_times, cm_cache_size_bytes>>
                /\ cm_ret' = [op |-> "set", key |-> Some(key), val |-> Some(FALSE),
                              at |-> now]
           ELSE /\ cm_cache' = (key :> entry) @@ st.cache
                /\ cm_access_times' = SetAccessTime(st.access_times, key, now)
                /\ cm_cache_size_bytes' = st.cache_size_bytes + size
                /\ cm_ret' = [op |-> "set", key |-> Some(key), val |-> Some(TRUE),
                              at |-> now]
        /\ UNCHANGED <<cm_max_size_bytes, cm_default_ttl, cm_hits, cm_misses>>
        /\ UNCHANGED <<run_vars, clf_vars, an_vars, th_vars, jm_vars, svc_vars, pbs_vars, now>>

\* AdvancedCacheManager.clear()
cm_clear ==
    /\ cm_cache' = <<>>
    /\ cm_access_times' = <<>>
    /\ cm_cache_size_bytes' = 0
    /\ cm_ret' = [op |-> "clear", key |-> None, val |-> None, at |-> now]
    /\ UNCHANGED <<cm_max_size_bytes, cm_default_ttl, cm_hits, cm_misses>>
    /\ UNCHANGED <<run_vars, clf_vars, an_vars, th_vars, jm_vars, svc_vars, pbs_vars, now>>

\* the inputs of SpecCache
CacheKeys == {"k1", "k2"}

CacheGet ==
    /\ cm_hits + cm_misses < MaxGets
    /\ \E key \in CacheKeys : cm_get(key)

CacheSet ==
    /\ cm_cache_size_bytes <= MaxCacheBytes
    /\ \E key \in CacheKeys, data \in {[chars |-> 1], [chars |-> 262143]},
          ttl \in {None, Some(2)} :
          cm_set(key, data, ttl)

CacheClear == cm_clear

\* datetime.now() moves on by a second
Tick ==
    /\ now < MaxTime
    /\ now' = now + 1
    /\ UNCHANGED <<run_vars, clf_vars, an_vars, th_vars, jm_vars, svc_vars, pbs_vars, cm_vars>>

NextCache == CacheGet \/ CacheSet \/ CacheClear \/ Tick

----------------------------------------------------------------------------
(* Claims about the cache manager and the two services *)

\* C8: a lookup is a hit only while the time since the entry was stored is
\* less than its ttl; reading an entry does not extend its lifetime.
C8_ServedOnlyWhileFresh ==
    (cm_ret.op = "get" /\ cm_ret.val # None) =>
        LET entry == cm_cache[cm_ret.key[1]]
        IN  cm_ret.at - entry.created < entry.ttl

\* C9: cancelling a job that is still pending succeeds and the job is never
\* started afterwards; cancelling a job that is processing does not interrupt
\* it.
C9_CancelPending ==
    cancel_ret.op = "cancel_job" =>
        /\ cancel_ret.was = Some(PENDING) =>
              /\ cancel_ret.val = TRUE
              /\ svc_jobs[cancel_ret.job_id].status = CANCELLED
        /\ cancel_ret.was = Some(PROCESSING) =>
              svc_jobs[cancel_ret.job_id].status \in {PROCESSING, COMPLETED, FAILED}

\* the jobs of a service whose processing is over and whose analyzer raised
Raised(tasks) ==
    {j \in DOMAIN tasks : tasks[j].pc = "done" /\ tasks[j].raised # None}

Absorbed(tasks) ==
    {j \in DOMAIN tasks : tasks[j].pc = "done" /\ tasks[j].absorbed}

\* the state part of C10 as amended
C10_Outcomes ==
    /\ \A j \in Raised(svc_tasks) \cap DOMAIN svc_jobs :
          /\ svc_jobs[j].status = FAILED
          /\ svc_jobs[j].error_message = svc_tasks[j].raised
    /\ \A j \in Absorbed(svc_tasks) \cap DOMAIN svc_jobs :
          /\ svc_jobs[j].status = COMPLETED
          /\ svc_jobs[j].result = Some("partial_results")
          /\ svc_jobs[j].error_message = None
    /\ \A j \in Raised(pbs_tasks) \cap DOMAIN pbs_jobs :
          /\ pbs_jobs[j].status = FAILED
          /\ pbs_jobs[j].error = Some(ErrorPrefix \o pbs_tasks[j].raised[1])
          /\ pbs_jobs[j].error[1] # <<>>
    /\ \A j \in Absorbed(pbs_tasks) \cap DOMAIN pbs_jobs :
          /\ pbs_jobs[j].status = COMPLETED
          /\ pbs_jobs[j].result = Some("fallback")
          /\ pbs_jobs[j].error = None

\* a step that is not a step of a job's own task leaves the job as it is; a
\* job that was uploaded without background tasks has no task
C10_OthersUnaffected ==
    /\ \A j \in DOMAIN svc_jobs :
          (j \in DOMAIN svc_tasks => svc_tasks'[j] = svc_tasks[j]) =>
              j \in DOMAIN svc_jobs' /\ svc_jobs'[j] = svc_jobs[j]
    /\ \A j \in DOMAIN pbs_jobs :
          pbs_tasks'[j] = pbs_tasks[j] =>
              j \in DOMAIN pbs_jobs' /\ pbs_jobs'[j] = pbs_jobs[j]

\* C10 (as amended): when an exception leaves the processing of a job's
\* component, the job ends failed and records the text of the exception (after
\* a non-empty prefix in process_analysis, as str(e) alone in process_job); when
\* a processor absorbs the exception of its analyzer, the job ends completed
\* with the fallback or partial result and records no error; no other job's
\* status or result changes.
C10_FailureIsRecordedAndLocal ==
    []C10_Outcomes /\ [][C10_OthersUnaffected]_vars

\* a job failed by an exception while another is processing, and a job of the
\* brain service completed by a fallback
C10_Witness ==
    /\ \E j \in Raised(svc_tasks), k \in DOMAIN svc_jobs :
          /\ svc_jobs[j].status = FAILED
          /\ svc_jobs[j].error_message = Some(<<"division by zero">>)
          /\ svc_jobs[k].status = PROCESSING
    /\ \E j \in Absorbed(pbs_tasks) : pbs_jobs[j].status = COMPLETED

\* C10: if an analyzer raises an exception while a job is processed, the job
\* ends failed with a non-empty error message.
C10_AnalyzerExceptionFailsJob ==
    /\ \A j \in Raised(svc_tasks) \cup Absorbed(svc_tasks) :
          /\ svc_jobs[j].status = FAILED
          /\ svc_jobs[j].error_message # None
          /\ svc_jobs[j].error_message[1] # <<>>
    /\ \A j \in Raised(pbs_tasks) \cup Absorbed(pbs_tasks) :
          /\ pbs_jobs[j].status = FAILED
          /\ pbs_jobs[j].error # None
          /\ pbs_jobs[j].error[1] # <<>>

----------------------------------------------------------------------------
(* Part 5: ultimate_breakdown_system: the run over the scenes of a script   *)
(*                                                                         *)
(* A script is a sequence of lines.  A line that starts with a scene       *)
(* marker is a record [kind |-> "marker", number, ...] which also carries  *)
(* what the passes of analyze_scene read in the block it opens: location,  *)
(* day_night, cast, props, and malformed (the analysis of the block raises *)
(* an exception before the refinement pass); any other line is            *)
(* [kind |-> "text"].                                                      *)

TextLine == [kind |-> "text"]

RECURSIVE SortedSeq(_)
\* the elements of a set of numbers in ascending order
SortedSeq(S) ==
    IF S = {} THEN <<>> ELSE <<SetMin(S)>> \o SortedSeq(S \ {SetMin(S)})

\* split_scenes: the script is cut before every marker line; a block is kept,
\* with the number of its marker, when it starts with a marker
split_scenes(c) ==
    LET starts == SortedSeq({i \in 1..Len(c) : c[i].kind = "marker"})
        EndOf(k) == IF k < Len(starts) THEN starts[k + 1] - 1 ELSE Len(c)
    IN  [k \in 1..Len(starts) |->
            <<c[starts[k]].number, SubSeq(c, starts[k], EndOf(k))>>]

\* main_async up to the loop over the scenes: the script is split and a
\* RevolutionarySceneParser, with its SceneContextGraph, is created
NewRun(c) ==
    /\ content = c
    /\ scenes_data = split_scenes(c)
    /\ scene_idx = 1
    /\ scenes = <<>>
    /\ character_timeline = <<>>
    /\ prop_registry = <<>>
    /\ location_history = <<>>
    /\ finished_runs = <<>>

\* d[k] of a defaultdict(list)
ListOf(d, k) == IF k \in DOMAIN d THEN d[k] ELSE <<>>

\* seq[-3:]
Last3(seq) == IF Len(seq) > 3 THEN SubSeq(seq, Len(seq) - 2, Len(seq)) ELSE seq

Range(seq) == {seq[i] : i \in 1..Len(seq)}

\* the orders in which the elements of set(cast) may be iterated
IterationOrders(S) ==
    {order \in [1..Cardinality(S) -> S] : Range(order) = S}

RECURSIVE Concat(_)
Concat(seqs) == IF seqs = <<>> THEN <<>> ELSE Head(seqs) \o Concat(Tail(seqs))

\* [mutant] detect_continuation without the test of the location
DetectContinuationAnywhere(timeline, scene, order) ==
    LET recent_scenes == Concat([i \in 1..Len(order) |->
                                    Last3(ListOf(timeline, order[i]))])
        matching == {i \in 1..Len(recent_scenes) :
                        recent_scenes[i].time = scene.day_night}
    IN  IF matching = {}
        THEN None
        ELSE Some(recent_scenes[CHOOSE i \in matching :
                                   \A j \in matching : j <= i].scene)

\* SceneContextGraph.detect_continuation; order is the order in which
\* set(current_scene.cast) is iterated; the first match of the reversed list
\* is the last match of the list
detect_continuation(timeline, scene, order) ==
    LET recent_scenes == Concat([i \in 1..Len(order) |->
                                    Last3(ListOf(timeline, order[i]))])
        matching == {i \in 1..Len(recent_scenes) :
                        /\ recent_scenes[i].location = scene.location
                        /\ recent_scenes[i].time = scene.day_night}
    IN  IF matching = {}
        THEN None
        ELSE Some(recent_scenes[CHOOSE i \in matching :
                                   \A j \in matching : j <= i].scene)

\* seq[:-1]
AllButLast(seq) == SubSeq(seq, 1, Len(seq) - 1)

\* the note of get_continuity_notes for each prop of the list that is
\* registered more than once
PropNotes(registry, props_list) ==
    LET Noted(prop) == Len(ListOf(registry, prop)) > 1
        Note(prop) == [kind |-> "prop", prop |-> prop,
                       scenes |-> AllButLast(ListOf(registry, prop))]
        noted == SelectSeq(props_list, Noted)
    IN  [i \in 1..Len(noted) |-> Note(noted[i])]

\* the characters get_continuity_notes finds in the same location: those whose
\* entry before the last, self.character_timeline[char][-2], is at the location
LocationChars(timeline, scene) ==
    LET SameLocation(char) ==
            /\ char \in DOMAIN timeline
            /\ Len(timeline[char]) > 1
            /\ timeline[char][Len(timeline[char]) - 1].location = scene.location
    IN  SelectSeq(scene.cast, SameLocation)

\* SceneContextGraph.get_continuity_notes
get_continuity_notes(registry, timeline, scene) ==
    PropNotes(registry, scene.props_list)
        \o (IF LocationChars(timeline, scene) # <<>>
            THEN <<[kind |-> "wardrobe", chars |-> LocationChars(timeline, scene)]>>
            ELSE <<>>)

\* [mutant] d[k] = [v] for every k of the list keys
OverwriteEach(d, keys, v) ==
    [k \in DOMAIN d \cup Range(keys) |->
        IF k \in Range(keys) THEN <<v>> ELSE d[k]]

\* d[k].append(v) for every k of the list keys, d a defaultdict(list): v is
\* appended to d[k] once for each time k occurs in keys
AppendEach(d, keys, v) ==
    [k \in DOMAIN d \cup Range(keys) |->
        ListOf(d, k) \o [i \in 1..Cardinality({n \in 1..Len(keys) : keys[n] = k})
                             |-> v]]

\* the breakdown of a block after the first two passes of analyze_scene
Extracted(scene_number, block) ==
    [scene_number |-> scene_number,
     location |-> Head(block).location,
     day_night |-> Head(block).day_night,
     cast |-> Head(block).cast,
     props_list |-> Head(block).props,
     is_continuation |-> FALSE,
     previous_scene_ref |-> None,
     continuity_notes |-> <<>>]

\* _pass3_refine; get_continuity_notes reads self.prop_registry[prop], which
\* gives every prop of the scene an entry in the registry
_pass3_refine(breakdown, order) ==
    LET prev_scene == detect_continuation(character_timeline, breakdown, order)
    IN  [breakdown EXCEPT
            !.is_continuation = prev_scene # None,
            !.previous_scene_ref = prev_scene,
            !.continuity_notes =
                get_continuity_notes(prop_registry, character_timeline, breakdown)]

\* the context graph after SceneContextGraph.register_scene(scene)
Registered(graph, scene) ==
    [character_timeline |->
         AppendEach(graph.character_timeline, scene.cast,
                    [scene |-> scene.scene_number, time |-> scene.day_night,
                     location |-> scene.location]),
     prop_registry |->
         AppendEach(graph.prop_registry, scene.props_list, scene.scene_number),
     location_history |->
         AppendEach(graph.location_history, <<scene.location>>, scene.scene_number)]

\* SceneContextGraph.register_scene on the context graph of the parser
register_scene(scene) ==
    LET graph == Registered([character_timeline |-> character_timeline,
                             prop_registry |-> prop_registry,
                             location_history |-> location_history], scene)
    IN  /\ character_timeline' = graph.character_timeline
        /\ prop_registry' = graph.prop_registry
        /\ location_history' = graph.location_history

\* [mutant] the run stops at the first scene whose analysis raises
RunStopsAfterFailure(idx, data) == Len(data) + 1

\* the except branch of the loop of main_async: the failure is logged and the
\* loop goes on with the next block
AfterFailure(idx, data) == idx + 1

\* one turn of the loop of main_async: analyze_scene on the next block; when
\* it raises, the scene is logged and skipped
AnalyzeNextScene ==
    /\ scene_idx <= Len(scenes_data)
    /\ LET scene_num == scenes_data[scene_idx][1]
           block == scenes_data[scene_idx][2]
       IN  IF Head(block).malformed
           THEN UNCHANGED <<scenes, character_timeline, prop_registry,
                            location_history>>
           ELSE \E order \in IterationOrders(Range(Head(block).cast)) :
                   LET breakdown == _pass3_refine(Extracted(scene_num, block), order)
                   IN  /\ register_scene(breakdown)
                       /\ scenes' = Append(scenes, breakdown)
    /\ scene_idx' = IF Head(scenes_data[scene_idx][2]).malformed
                    THEN AfterFailure(scene_idx, scenes_data)
                    ELSE scene_idx + 1
    /\ UNCHANGED <<content, scenes_data, finished_runs>>
    /\ UNCHANGED <<jm_vars, svc_vars, pbs_vars, cm_vars, clf_vars, an_vars, th_vars, now>>

NextRun == AnalyzeNextScene

\* the scripts of 1..n scenes numbered in order whose marker lines are in M
RECURSIVE ScriptsOf(_, _)
ScriptsOf(n, M) ==
    IF n = 0
    THEN {<<>>}
    ELSE LET shorter == ScriptsOf(n - 1, M)
         IN  shorter \cup
             {Append(c, m) : c \in {d \in shorter : Len(d) = n - 1},
                             m \in {x \in M : x.number = n}}

\* the scripts made of at most n of the given blocks
RECURSIVE ScriptsFrom(_, _)
ScriptsFrom(n, blocks) ==
    IF n = 0
    THEN {<<>>}
    ELSE LET shorter == ScriptsFrom(n - 1, blocks)
         IN  shorter \cup {c \o block : c \in shorter, block \in blocks}

InitRun ==
    LET \* SpecRun: scenes numbered in any order, with and without text after the
        \* marker line, some of them malformed, after a title line or none
        MarkersRun ==
            [kind : {"marker"}, number : 1..MaxScenes, location : {"room"},
             day_night : {"day"}, cast : {<<"A">>}, props : {<<>>}, malformed : BOOLEAN]
        BlocksRun == {<<m>> : m \in MarkersRun} \cup {<<m, TextLine>> : m \in MarkersRun}
        ScriptsRun ==
            {title \o c : title \in {<<>>, <<TextLine>>},
                          c \in ScriptsFrom(MaxScenes, BlocksRun)}
    IN
    /\ NewAdvancedJobManager(default_max_concurrent_jobs)
    /\ NewServiceJobManager
    /\ NewBrainJobManager
    /\ NewAdvancedCacheManager(default_max_size_mb, default_default_ttl)
    /\ \E c \in ScriptsRun : NewRun(c)
    /\ NewPropClassifier
    /\ NoSceneAnalysis
    /\ NoThreads
    /\ now = 0

\* the rest of process_analysis; analyzer_raises says whether the analyzer of
\* the component raises an exception when it is called.  The processors of
\* the first-scene components call self.ultimate_parser.analyze_scene on the
\* first scene of the text and return their fallback when the text has none;
\* process_continuity_check calls it on every scene, in order, until it
\* raises; process_revolutionary_analysis calls the revolutionary system when
\* it is there, and its average raises when the text has no scene.
\* analyze_scene ends with register_scene: every scene it returns for is in
\* the context graph of the parser of the processor afterwards, also when
\* the processor ends with its fallback because of a later scene.
pbs_task_finish(job_id, analyzer_raises) ==
    /\ job_id \in DOMAIN pbs_tasks
    /\ pbs_tasks[job_id].pc = "running"
    /\ LET component == pbs_tasks[job_id].component
           blocks == split_scenes(pbs_tasks[job_id].text)
           has_scene == blocks # <<>>
           revolutionary == component = "revolutionary_analysis"
           called == IF revolutionary THEN REVOLUTIONARY_AVAILABLE ELSE has_scene
           failing == {k \in 1..Len(blocks) :
                          analyzer_raises \/ Head(blocks[k][2]).malformed}
           raised == IF revolutionary THEN analyzer_raises \/ ~has_scene
                     ELSE IF component = "continuity_check" THEN failing # {}
                     ELSE 1 \in failing
           absorbed == called /\ raised
           fallback == \/ absorbed
                       \/ revolutionary /\ ~REVOLUTIONARY_AVAILABLE
                       \/ ~has_scene /\ component # "continuity_check"
           analysed ==
               IF ~Dispatched(component) \/ revolutionary THEN <<>>
               ELSE IF component = "continuity_check"
               THEN SubSeq(blocks, 1, IF failing = {} THEN Len(blocks)
                                      ELSE SetMin(failing) - 1)
               ELSE IF has_scene /\ 1 \notin failing THEN <<blocks[1]>> ELSE <<>>
           graph[k \in 0..Len(analysed)] ==
               IF k = 0
               THEN [character_timeline |-> character_timeline,
                     prop_registry |-> prop_registry,
                     location_history |-> location_history]
               ELSE Registered(graph[k - 1],
                               Extracted(analysed[k][1], analysed[k][2]))
       IN  /\ IF Dispatched(component)
              THEN /\ pbs_jobs' = update_job(pbs_jobs, job_id,
                                     [status |-> COMPLETED,
                                      result |-> Some(IF fallback
                                                      THEN "fallback" ELSE "analysis")])
                   /\ pbs_tasks' = [pbs_tasks EXCEPT ![job_id].pc = "done",
                                                     ![job_id].absorbed = absorbed]
              ELSE /\ pbs_jobs' = ProcessAnalysisFailed(pbs_jobs, job_id, UnsupportedComponent)
                   /\ pbs_tasks' = [pbs_tasks EXCEPT ![job_id].pc = "done",
                                                     ![job_id].raised = Some(UnsupportedComponent)]
           /\ character_timeline' = graph[Len(analysed)].character_timeline
           /\ prop_registry' = graph[Len(analysed)].prop_registry
           /\ location_history' = graph[Len(analysed)].location_history
    /\ UNCHANGED <<pbs_max_jobs, pbs_ctr>>
    /\ UNCHANGED <<content, scenes_data, scene_idx, scenes, finished_runs>>
    /\ UNCHANGED <<clf_vars, an_vars, th_vars, jm_vars, svc_vars, cm_vars, now>>

----------------------------------------------------------------------------
(* Actions of the two services; the brain service analyses with the parser *)
(* and the context graph of Part 5                                       *)

\* SpecProc: both services, some kinds of request each, cancellation
SubmitJob ==
    /\ svc_ctr + pbs_ctr < MaxProcJobs
    /\ \E t \in {"scene_salience", "revolutionary_breakdown", "full_analysis"} :
          submit_job([processing_type |-> t])

\* a file is uploaded, of a text type or of a type that is not allowed, in
\* utf-8 or not, with the default processing type, by a caller that gives
\* background tasks (as the framework does) or none
UploadScriptFile ==
    /\ svc_ctr + pbs_ctr < MaxProcJobs
    /\ \E file \in {[content_type |-> "text/plain", utf8 |-> TRUE],
                    [content_type |-> "text/plain", utf8 |-> FALSE],
                    [content_type |-> "image/png", utf8 |-> TRUE]},
          background_tasks \in {None, Some("BackgroundTasks")} :
          upload_script_file(file, "full_analysis", background_tasks)

TaskStart == \E job_id \in 1..MaxProcJobs : svc_task_start(job_id)

TaskReturns == \E job_id \in 1..MaxProcJobs : svc_task_analyzer_returns(job_id)

\* str(e) of the exception raised is an empty text or a text; the processor
\* of a breakdown type raises HTTPException(503), the engine being absent
TaskRaises ==
    \E job_id \in 1..MaxProcJobs,
       e \in {<<>>, <<"division by zero">>, <<"503: engine not available">>} :
        /\ job_id \in DOMAIN svc_tasks
        /\ e = <<"503: engine not available">>
              <=> svc_tasks[job_id].processing_type
                      \in {"revolutionary_breakdown", "ultimate_breakdown"}
        /\ svc_task_analyzer_raises(job_id, e)

CancelJob == \E job_id \in 1..MaxProcJobs : cancel_job(job_id)

\* the text of a request: one scene, of one character and one prop
OneSceneText ==
    <<[kind |-> "marker", number |-> 1, location |-> "room", day_night |-> "day",
       cast |-> <<"A">>, props |-> <<"envelope">>, malformed |-> FALSE]>>

\* a request of a component that is dispatched, with a text that has a scene
\* or none, or of one that is not, which fails whatever its text
StartAnalysis ==
    /\ svc_ctr + pbs_ctr < MaxProcJobs
    /\ \E request \in {[component |-> "semantic_synopsis", text |-> <<>>],
                       [component |-> "semantic_synopsis", text |-> OneSceneText],
                       [component |-> "scene_salience", text |-> OneSceneText]} :
          start_analysis(request)

BrainTaskStart == \E job_id \in 1..MaxProcJobs : pbs_task_start(job_id)

BrainTaskFinish ==
    \E job_id \in 1..MaxProcJobs, analyzer_raises \in BOOLEAN :
        pbs_task_finish(job_id, analyzer_raises)

NextProc ==
    \/ SubmitJob \/ UploadScriptFile \/ TaskStart \/ TaskReturns \/ TaskRaises \/ CancelJob
    \/ StartAnalysis \/ BrainTaskStart \/ BrainTaskFinish

\* SpecStore: the job store of the brain service is filled beyond max_jobs
CreateJob ==
    /\ pbs_ctr < MaxStoreJobs
    /\ start_analysis([component |-> "semantic_synopsis", text |-> OneSceneText])

\* between two create_job calls of SpecStore the clock moves on, once
StoreTick ==
    /\ now = 0
    /\ now' = now + 1
    /\ UNCHANGED <<run_vars, clf_vars, an_vars, th_vars, jm_vars, svc_vars, pbs_vars, cm_vars>>

NextStore == CreateJob \/ StoreTick

----------------------------------------------------------------------------
\* ComponentProcessor.process_continuity_check up to its loop: the text of the
\* request is split; the parser of the processor, with its context graph, is
\* the one that served the requests before
process_continuity_check(text) ==
    /\ scene_idx > Len(scenes_data)
    /\ finished_runs' =
          IF content = <<>>
          THEN finished_runs
          ELSE Append(finished_runs, [content |-> content, scenes |-> scenes])
    /\ content' = text
    /\ scenes_data' = split_scenes(text)
    /\ scene_idx' = 1
    /\ scenes' = <<>>
    /\ UNCHANGED <<character_timeline, prop_registry, location_history>>
    /\ UNCHANGED <<jm_vars, svc_vars, pbs_vars, cm_vars, clf_vars, an_vars, th_vars, now>>

ContinuityCheck ==
    LET \* SpecService: scenes of one character in one room, with a prop or none
        MarkersService ==
            [kind : {"marker"}, number : 1..MaxScenes, location : {"room"},
             day_night : {"day"}, cast : {<<"A">>}, props : {<<>>, <<"envelope">>},
             malformed : {FALSE}]
    IN
    /\ Len(finished_runs) + (IF content = <<>> THEN 0 ELSE 1) < MaxRequests
    /\ \E text \in ScriptsOf(MaxScenes, MarkersService) \ {<<>>} :
          process_continuity_check(text)

\* ComponentProcessor.process_semantic_synopsis, and likewise
\* process_prop_classification, process_wardrobe_inference and
\* process_cinematic_patterns: the first scene of the text of the request is
\* analysed by the parser of the processor, which registers it in its
\* context graph; the request is no continuity check.  Only the first scene
\* of the text matters.
SemanticSynopsis ==
    /\ scene_idx > Len(scenes_data)
    /\ Len(finished_runs) + (IF content = <<>> THEN 0 ELSE 1) < MaxRequests
    /\ \A loc \in DOMAIN location_history :
          Len(location_history[loc]) < MaxRequests
    /\ \E props \in {<<>>, <<"envelope">>} :
          LET text == <<[kind |-> "marker", number |-> 1,
                         location |-> "room", day_night |-> "day",
                         cast |-> <<"A">>, props |-> props,
                         malformed |-> FALSE]>>
              first == split_scenes(text)[1]
          IN  \E order \in IterationOrders(Range(Head(first[2]).cast)) :
                  register_scene(_pass3_refine(Extracted(first[1], first[2]), order))
    /\ UNCHANGED <<content, scenes_data, scene_idx, scenes, finished_runs>>
    /\ UNCHANGED <<jm_vars, svc_vars, pbs_vars, cm_vars, clf_vars, an_vars, th_vars, now>>

NextService == ContinuityCheck \/ SemanticSynopsis \/ AnalyzeNextScene

InitNotes ==
    LET \* SpecNotes: scenes that differ in location, cast and props
        MarkersNotes ==
            [kind : {"marker"}, number : 1..MaxScenes, location : {"room", "garden"},
             day_night : {"day"}, cast : {<<"A">>, <<"B">>},
             props : {<<>>, <<"envelope">>, <<"envelope", "bag">>}, malformed : {FALSE}]
    IN
    /\ NewAdvancedJobManager(default_max_concurrent_jobs)
    /\ NewServiceJobManager
    /\ NewBrainJobManager
    /\ NewAdvancedCacheManager(default_max_size_mb, default_default_ttl)
    /\ \E c \in ScriptsOf(MaxScenes, MarkersNotes) : NewRun(c)
    /\ NewPropClassifier
    /\ NoSceneAnalysis
    /\ NoThreads
    /\ now = 0

InitContinuation ==
    LET \* SpecContinuation: scenes that differ in location, time and cast
        MarkersContinuation ==
            [kind : {"marker"}, number : 1..MaxScenes, location : {"room", "garden"},
             day_night : {"day", "night"}, cast : {<<"A">>, <<"B">>, <<"A", "B">>},
             props : {<<>>}, malformed : {FALSE}]
    IN
    /\ NewAdvancedJobManager(default_max_concurrent_jobs)
    /\ NewServiceJobManager
    /\ NewBrainJobManager
    /\ NewAdvancedCacheManager(default_max_size_mb, default_default_ttl)
    /\ \E c \in ScriptsOf(MaxScenes, MarkersContinuation) : NewRun(c)
    /\ NewPropClassifier
    /\ NoSceneAnalysis
    /\ NoThreads
    /\ now = 0

----------------------------------------------------------------------------
(* Claims about the run over the scenes and the context graph *)

\* the positions in scenes, before position k, of the last three scenes that
\* have the character char in their cast
LastThreeOf(char, k) ==
    LET with == {j \in 1..(k - 1) : char \in Range(scenes[j].cast)}
    IN  {j \in with : Cardinality({i \in with : i > j}) < 3}

\* the positions in scenes of the earlier scenes that scenes[k] may continue
ContinuationCandidates(k) ==
    {j \in 1..(k - 1) :
        /\ scenes[j].location = scenes[k].location
        /\ scenes[j].day_night = scenes[k].day_night
        /\ \E char \in Range(scenes[k].cast) : j \in LastThreeOf(char, k)}

\* C12: detect_continuation returns the most recently registered prior scene
\* with the location and the time of day of the current scene that is among the
\* last 3 timeline entries of one of its cast members, whatever the order in
\* which the cast members are examined, and none when there is no such scene.
C12_MostRecentContinuation ==
    \A k \in 1..Len(scenes) :
        scenes[k].previous_scene_ref =
            IF ContinuationCandidates(k) = {}
            THEN None
            ELSE Some(scenes[CHOOSE j \in ContinuationCandidates(k) :
                                \A i \in ContinuationCandidates(k) : i <= j].scene_number)

\* C13: of two scenes processed in order, with the same location and time of
\* day and a shared cast member, the second is found to continue the first;
\* when the location of the second differs, no continuation is found.
C13_SecondContinuesFirst ==
    Len(scenes) >= 2 =>
        /\ (/\ scenes[1].location = scenes[2].location
            /\ scenes[1].day_night = scenes[2].day_night
            /\ Range(scenes[1].cast) \cap Range(scenes[2].cast) # {}) =>
               /\ scenes[2].is_continuation
               /\ scenes[2].previous_scene_ref = Some(scenes[1].scene_number)
        /\ scenes[1].location # scenes[2].location =>
               /\ ~scenes[2].is_continuation
               /\ scenes[2].previous_scene_ref = None

\* the second scene of a run was found to continue the first
C13_Witness ==
    /\ Len(scenes) = 2
    /\ scenes[1].location = scenes[2].location
    /\ scenes[1].day_night = scenes[2].day_night
    /\ Range(scenes[1].cast) \cap Range(scenes[2].cast) # {}
    /\ scenes[2].previous_scene_ref = Some(scenes[1].scene_number)

\* the numbers of the scenes before scenes[k] that have the prop
PriorScenesWith(prop, k) ==
    LET Has(scene) == prop \in Range(scene.props_list)
        prior == SelectSeq(SubSeq(scenes, 1, k - 1), Has)
    IN  [i \in 1..Len(prior) |-> prior[i].scene_number]

NotesOfKind(k, kind) ==
    {i \in 1..Len(scenes[k].continuity_notes) :
        scenes[k].continuity_notes[i].kind = kind}

\* C14: a refined scene has exactly one note for each of its props that
\* appeared in an earlier scene, listing the numbers of all those earlier
\* scenes, and no note for a prop without an earlier appearance.
C14_OneNotePerRepeatedProp ==
    \A k \in 1..Len(scenes) :
        \A prop \in Range(scenes[k].props_list) :
            LET notes == {i \in NotesOfKind(k, "prop") :
                             scenes[k].continuity_notes[i].prop = prop}
            IN  IF PriorScenesWith(prop, k) = <<>>
                THEN notes = {}
                ELSE /\ Cardinality(notes) = 1
                     /\ \A i \in notes :
                           scenes[k].continuity_notes[i].scenes
                               = PriorScenesWith(prop, k)

\* C15: a refined scene has one wardrobe-continuity note if one of its cast
\* members appeared in an earlier scene at the same location, and none
\* otherwise.
C15_WardrobeNoteOnReappearance ==
    \A k \in 1..Len(scenes) :
        LET reappears ==
                \E j \in 1..(k - 1) :
                    /\ scenes[j].location = scenes[k].location
                    /\ Range(scenes[j].cast) \cap Range(scenes[k].cast) # {}
        IN  Cardinality(NotesOfKind(k, "wardrobe")) = IF reappears THEN 1 ELSE 0

\* the marker lines of the script, in the order of the text
MarkerLines ==
    LET IsMarker(line) == line.kind = "marker"
    IN  SelectSeq(content, IsMarker)

\* the marker lines of the blocks the loop has gone through whose analysis
\* succeeded
Succeeded ==
    LET WellFormed(line) == ~line.malformed
    IN  SelectSeq(SubSeq(MarkerLines, 1, scene_idx - 1), WellFormed)

\* C16: when the analysis of a scene fails the run goes on with the remaining
\* blocks; its output holds a breakdown for every scene that succeeded, in the
\* order of the document, and none for a failed scene.
C16_RunSurvivesFailedScene ==
    /\ scene_idx <= Len(MarkerLines) + 1
    /\ Len(scenes) = Len(Succeeded)
    /\ \A i \in 1..Len(scenes) : scenes[i].scene_number = Succeeded[i].number

\* a finished run of three scenes, the second of which failed
C16_Witness ==
    /\ Len(MarkerLines) = 3
    /\ scene_idx = 4
    /\ ~MarkerLines[1].malformed
    /\ MarkerLines[2].malformed
    /\ ~MarkerLines[3].malformed
    /\ Len(scenes) = 2
    /\ scenes[1].scene_number = MarkerLines[1].number
    /\ scenes[2].scene_number = MarkerLines[3].number

\* C17: split_scenes gives one block for every scene marker of the document,
\* and the blocks are in ascending order of their scene numbers, also when the
\* markers are not in that order in the text.
C17_BlocksInNumericOrder ==
    /\ Len(scenes_data) = Len(MarkerLines)
    /\ \A i, j \in 1..Len(scenes_data) :
          i < j => scenes_data[i][1] <= scenes_data[j][1]

----------------------------------------------------------------------------
(* Part 6: ultimate_breakdown_system: PropClassifier and the props of a     *)
(* breakdown                                                               *)
(*                                                                         *)
(* A word of the script is a string (the English gloss of the Arabic word  *)
(* of the source), a phrase is a sequence of words, and a text is the set  *)
(* of the phrases it holds, which nothing the code looks for joins up.     *)
(* The code only tests whether a keyword or a regular expression occurs    *)
(* in a text, so the order and the number of the phrases do not matter.    *)
(* An item is one phrase.  The code looks for letters, not for words: a    *)
(* word is found inside a longer word.  A word that holds another word of  *)
(* the vocabulary is therefore spelled as a sequence of parts, and a       *)
(* phrase is searched as the sequence of the parts of its words, with a    *)
(* blank between two words.                                                *)

\* one alternative of a regular expression: the words, and the words of its
\* negative lookahead (?!...), <<>> when it has none
Pat(words, not_before) == [words |-> words, not_before |-> not_before]

\* the letters of a word, in parts: the words of the vocabulary that hold
\* another of its words (shelf in envelope, room and shelves; hand in
\* his_hand, pushes, enters and postal; in in light and villa; lighting in
\* lit; pictures in picture; Hosn in Hosny); every other word is one part
Spelling(word) ==
    CASE word = "envelope" -> <<"z", "shelf">>
      [] word = "room" -> <<"gh", "shelf", "t">>
      [] word = "shelves" -> <<"a", "shelf", "f">>
      [] word = "his_hand" -> <<"hand", "h">>
      [] word = "pushes" -> <<"hand", "fa">>
      [] word = "enters" -> <<"hand", "khl">>
      [] word = "postal" -> <<"br", "hand", "y">>
      [] word = "light" -> <<"kh", "in", "f">>
      [] word = "villa" -> <<"in", "la">>
      [] word = "lit" -> <<"b", "lighting">>
      [] word = "picture" -> <<"pictures", "t">>
      [] word = "Hosny" -> <<"Hosn", "y">>
      [] OTHER -> <<word>>

\* the letters of a phrase: the parts of its words, a blank between two words
RECURSIVE Letters(_)
Letters(phrase) ==
    IF phrase = <<>> THEN <<>>
    ELSE IF Len(phrase) = 1 THEN Spelling(phrase[1])
    ELSE Spelling(phrase[1]) \o <<" ">> \o Letters(Tail(phrase))

\* the alternative occurs in the phrase: its letters are found, and those
\* of its lookahead do not follow them after a blank
Matches(pat, phrase) ==
    LET text == Letters(phrase)
        words == Letters(pat.words)
        not_before == <<" ">> \o Letters(pat.not_before)
    IN  \E i \in 1..(Len(text) - Len(words) + 1) :
            LET j == i + Len(words)
            IN  /\ SubSeq(text, i, j - 1) = words
                /\ ~(/\ pat.not_before # <<>>
                     /\ j + Len(not_before) - 1 <= Len(text)
                     /\ SubSeq(text, j, j + Len(not_before) - 1) = not_before)

\* re.search(pattern, text), the pattern being the set of its alternatives
Search(pattern, text) == \E pat \in pattern, phrase \in text : Matches(pat, phrase)

\* kw in text
Contains(kw, text) == Search({Pat(kw, <<>>)}, text)

\* PropClassifier.TAXONOMY, in the order of the dict
TAXONOMY ==
    LET W(word) == Pat(<<word>>, <<>>)
    IN  <<[category |-> "props",
           keywords |-> {<<"holds">>, <<"takes">>, <<"hands">>, <<"carries">>,
                         <<"portable">>, <<"small">>, <<"light">>,
                         <<"in", "his_hand">>},
           patterns |-> <<{W("envelope"), W("packet")},
                          {W("phone"), W("mobile"),
                           Pat(<<"telephone">>, <<"portable", "auto">>)},
                          {W("magazine"), W("newspaper")},
                          {W("bag"), W("satchel")},
                          {W("glass"), W("cup"), W("teacup")},
                          {W("key"), W("keys")},
                          {W("eyeglass"), W("eyeglasses")},
                          {Pat(<<"watch", "hand">>, <<>>),
                           Pat(<<"watch", "wall">>, <<>>)}>>,
           medical_devices |-> <<{Pat(<<"chair", "moving">>, <<>>)},
                                 {W("crutch")},
                                 {W("pills"), W("medicine"), W("treatment")}>>],
          [category |-> "set_dressing",
           keywords |-> {<<"sits", "on">>, <<"in_front">>, <<"behind">>,
                         <<"beside">>, <<"fixed">>, <<"decor">>, <<"furniture">>},
           patterns |-> <<{Pat(<<"chair">>, <<"moving">>)},
                          {W("table"), W("stand")},
                          {W("mirror"), W("looking_glass")},
                          {W("bed")},
                          {W("cupboard"), W("wardrobe")},
                          {W("shelf"), W("shelves")},
                          {W("painting"), W("paintings")},
                          {W("curtain"), W("curtains")}>>,
           medical_devices |-> <<>>],
          [category |-> "vehicles",
           keywords |-> {<<"enters", "into">>, <<"drives">>, <<"rides">>,
                         <<"wheels">>, <<"engine">>, <<"moves">>, <<"speed">>},
           patterns |-> <<{Pat(<<"car">>, <<"toy">>)},
                          {W("bicycle")},
                          {W("plane")},
                          {W("boat"), W("ship")},
                          {W("bus"), W("autobus")}>>,
           medical_devices |-> <<>>]>>

\* _classify_wheelchair: the indicators of a use as a vehicle
vehicle_indicators ==
    <<<<"pushes">>, <<"speed">>, <<"moves">>, <<"road">>, <<"street">>>>

\* _classify_wheelchair: the indicators of a medical use
medical_indicators ==
    <<<<"medical">>, <<"patient">>, <<"sits">>, <<"paralysed">>, <<"disability">>>>

\* sum(1 for ind in indicators if ind in context)
Score(indicators, context) ==
    Cardinality({i \in 1..Len(indicators) : Contains(indicators[i], context)})

\* [mutant] _classify_wheelchair without the test vehicle_score >= 2
ClassifyWheelchairByHigherScore(context) ==
    IF Score(vehicle_indicators, context) > Score(medical_indicators, context)
    THEN <<"vehicles", <<"chair", "moving">>>>
    ELSE <<"props", <<"chair", "moving", "medical">>>>

\* PropClassifier._classify_wheelchair
_classify_wheelchair(context) ==
    LET vehicle_score == Score(vehicle_indicators, context)
        medical_score == Score(medical_indicators, context)
    IN  IF vehicle_score > medical_score /\ vehicle_score >= 2
        THEN <<"vehicles", <<"chair", "moving">>>>
        ELSE <<"props", <<"chair", "moving", "medical">>>>

\* PropClassifier._enhance_item_name: the name of the first key of the
\* category's table that occurs in the item, or the item
_enhance_item_name(item, category) ==
    LET enhancements ==
            <<<<"envelope", <<"envelope", "postal">>>>,
              <<"phone", <<"phone", "portable">>>>,
              <<"mobile", <<"phone", "portable">>>>,
              <<"computer", <<"computer", "auto", "portable">>>>,
              <<"laptop", <<"computer", "auto", "portable", "laptop">>>>>>
        found == {i \in 1..Len(enhancements) :
                     Contains(<<enhancements[i][1]>>, {item})}
    IN  IF category = "props" /\ found # {}
        THEN enhancements[SetMin(found)][2]
        ELSE item

\* a pattern of the list matches the item
AnyMatches(patterns, item) ==
    \E i \in 1..Len(patterns) : Search(patterns[i], {item})

\* the loop of classify_prop over TAXONOMY, from its k-th category on
RECURSIVE ClassifyFrom(_, _, _)
ClassifyFrom(k, item, context) ==
    IF k > Len(TAXONOMY)
    THEN <<"props", item>>
    ELSE LET rules == TAXONOMY[k]
             keyword_match == \E kw \in rules.keywords : Contains(kw, context)
         IN  IF /\ AnyMatches(rules.patterns, item)
                /\ (keyword_match \/ rules.category = "props")
             THEN <<rules.category, _enhance_item_name(item, rules.category)>>
             ELSE IF /\ rules.category = "props"
                     /\ AnyMatches(rules.medical_devices, item)
                  THEN <<"props", _enhance_item_name(item, "props")>>
                  ELSE ClassifyFrom(k + 1, item, context)

\* PropClassifier.classify_prop
classify_prop(item, context) ==
    IF Search({Pat(<<"chair", "moving">>, <<>>)}, {item})
    THEN _classify_wheelchair(context)
    ELSE ClassifyFrom(1, item, context)

\* _extract_and_classify_props: prop_patterns, in the order of the dict
prop_patterns ==
    LET W(word) == Pat(<<word>>, <<>>)
    IN  <<[name |-> <<"envelope">>, pattern |-> {W("envelope"), W("packet")}],
          [name |-> <<"phone", "portable">>,
           pattern |-> {W("phone"), W("mobile"), Pat(<<"telephone">>, <<"auto">>)}],
          [name |-> <<"computer", "auto">>,
           pattern |-> {W("laptop"), Pat(<<"computer", "auto">>, <<>>), W("pc")}],
          [name |-> <<"magazines">>, pattern |-> {W("magazine"), W("magazines")}],
          [name |-> <<"bag">>, pattern |-> {W("bag"), W("satchel")}],
          [name |-> <<"cassette">>, pattern |-> {W("cassette"), W("radio")}],
          [name |-> <<"chair", "moving">>,
           pattern |-> {Pat(<<"chair", "moving">>, <<>>)}],
          [name |-> <<"picture">>, pattern |-> {W("picture"), W("pictures")}]>>

\* the part of a new DetailedBreakdown the classification fills: props_list,
\* vehicles (the names the code joins into one string; none: its default
\* string) and the elements of set_dressing_html
NewBreakdown == [props_list |-> <<>>, vehicles |-> <<>>, set_dressing |-> <<>>]

\* [mutant] every classified item is also listed as a prop
ClassifiedIntoPropsToo(bd, classified) ==
    [bd EXCEPT !.props_list = Append(@, classified[2]),
               !.vehicles = IF classified[1] = "vehicles"
                            THEN Append(@, classified[2]) ELSE @]

\* the branches of _extract_and_classify_props on the category of an item;
\* an item of set_dressing is dropped
ClassifiedInto(bd, classified) ==
    IF classified[1] = "props"
    THEN [bd EXCEPT !.props_list = Append(@, classified[2])]
    ELSE IF classified[1] = "vehicles"
         THEN [bd EXCEPT !.vehicles = Append(@, classified[2])]
         ELSE bd

\* the loop of _extract_and_classify_props, from the k-th pattern on
RECURSIVE ExtractFrom(_, _, _)
ExtractFrom(k, bd, text) ==
    IF k > Len(prop_patterns)
    THEN bd
    ELSE IF Search(prop_patterns[k].pattern, text)
         THEN ExtractFrom(k + 1,
                  ClassifiedInto(bd, classify_prop(prop_patterns[k].name, text)),
                  text)
         ELSE ExtractFrom(k + 1, bd, text)

\* RevolutionarySceneParser._extract_and_classify_props: the names found,
\* gathered in a list that starts empty, take the place of props_list
_extract_and_classify_props(bd, text) ==
    ExtractFrom(1, [bd EXCEPT !.props_list = <<>>], text)

\* _rule_based_enrichment: dressing_patterns, in the order of the dict
dressing_patterns ==
    LET W(word) == Pat(<<word>>, <<>>)
    IN  <<[name |-> <<"mirror">>, pattern |-> {W("mirror"), W("looking_glass")}],
          [name |-> <<"chair">>, pattern |-> {Pat(<<"chair">>, <<"moving">>)}],
          [name |-> <<"table">>, pattern |-> {W("table"), W("stand")}],
          [name |-> <<"bed">>, pattern |-> {W("bed")}],
          [name |-> <<"cupboard">>, pattern |-> {W("cupboard"), W("wardrobe")}]>>

\* _rule_based_enrichment: the elements added for the location
LocationElements(location) ==
    IF Contains(<<"office">>, {location})
    THEN <<<<"office", "manager">>, <<"chairs">>, <<"shelves">>>>
    ELSE IF Contains(<<"room", "makeup">>, {location})
    THEN <<<<"mirror", "lit">>, <<"chair", "makeup">>, <<"table", "tools">>>>
    ELSE IF Contains(<<"home">>, {location}) \/ Contains(<<"room">>, {location})
    THEN IF Contains(<<"sleep">>, {location})
         THEN <<<<"bed">>, <<"cupboard">>, <<"lighting", "side">>>>
         ELSE <<<<"furniture", "home">>>>
    ELSE IF Contains(<<"villa">>, {location})
    THEN <<<<"furniture", "fine">>, <<"decor", "luxury">>>>
    ELSE <<>>

\* list(dict.fromkeys(seq))
RECURSIVE Dedup(_)
Dedup(seq) ==
    IF seq = <<>>
    THEN <<>>
    ELSE LET front == Dedup(AllButLast(seq))
         IN  IF seq[Len(seq)] \in Range(front)
             THEN front
             ELSE Append(front, seq[Len(seq)])

\* RevolutionarySceneParser._rule_based_enrichment, its set dressing
_rule_based_enrichment(bd, location, text) ==
    LET Found(d) == Search(d.pattern, text)
        found == SelectSeq(dressing_patterns, Found)
        set_elements == [i \in 1..Len(found) |-> found[i].name]
                            \o LocationElements(location)
    IN  [bd EXCEPT !.set_dressing = Dedup(set_elements)]

\* a call of classify_prop on the item, with the text as its context
ClassifyProp ==
    /\ clf_ret = None
    /\ clf_ret' = Some(classify_prop(clf_item, clf_text))
    /\ UNCHANGED <<clf_text, clf_location, clf_item, clf_breakdown>>
    /\ UNCHANGED <<jm_vars, svc_vars, pbs_vars, cm_vars, run_vars, an_vars, th_vars, now>>

\* _pass2_enrich on the text of the scene: the props are extracted and
\* classified, then the rules add the set dressing
Pass2Enrich ==
    /\ clf_breakdown = None
    /\ clf_breakdown' =
          Some(_rule_based_enrichment(
                   _extract_and_classify_props(NewBreakdown, clf_text),
                   clf_location, clf_text))
    /\ UNCHANGED <<clf_text, clf_location, clf_item, clf_ret>>
    /\ UNCHANGED <<jm_vars, svc_vars, pbs_vars, cm_vars, run_vars, an_vars, th_vars, now>>

NextProps == ClassifyProp \/ Pass2Enrich

InitProps ==
    LET \* the phrases of the texts: indicators of _classify_wheelchair (two of them
        \* keywords of vehicles), a keyword of set_dressing and one of vehicles, and
        \* things
        Phrases ==
            {<<"pushes">>, <<"speed">>, <<"moves">>, <<"street">>}
                \cup {<<"medical">>, <<"patient">>, <<"sits">>}
                \cup {<<"sits", "on">>, <<"enters", "into">>}
                \cup {<<"chair", "moving">>, <<"chair">>, <<"car">>, <<"envelope">>,
                      <<"bed">>}
        Texts == {text \in SUBSET Phrases : Cardinality(text) <= MaxPhrases}
        Items ==
            {<<"chair", "moving">>, <<"car">>, <<"key", "car">>, <<"chair", "car">>,
             <<"envelope">>, <<"chair">>, <<"room">>, <<"watch", "his_hand">>}
        Locations == {<<"street">>, <<"office">>, <<"room", "sleep">>}
    IN
    /\ NewAdvancedJobManager(default_max_concurrent_jobs)
    /\ NewServiceJobManager
    /\ NewBrainJobManager
    /\ NewAdvancedCacheManager(default_max_size_mb, default_default_ttl)
    /\ NewRun(<<>>)
    /\ clf_text \in Texts
    /\ clf_location \in Locations
    /\ clf_item \in Items
    /\ clf_ret = None
    /\ clf_breakdown = None
    /\ NoSceneAnalysis
    /\ NoThreads
    /\ now = 0

----------------------------------------------------------------------------
(* Claims about the classification of props *)

\* the classify_prop call was on the wheelchair
WheelchairClassified ==
    /\ clf_ret # None
    /\ clf_item = <<"chair", "moving">>

\* the indicators of the list that occur in the text
IndicatorsIn(indicators) ==
    {ind \in Range(indicators) : Contains(ind, clf_text)}

\* C18 (as stated): for the wheelchair the classifier compares the score of
\* the vehicle indicators with the score of the medical indicators and picks
\* the category with the higher score, props on a tie: it is a vehicle in any
\* context whose vehicle score is strictly higher, and a prop otherwise.
C18_HigherScoreWins ==
    WheelchairClassified =>
        clf_ret[1][1] =
            IF Cardinality(IndicatorsIn(vehicle_indicators))
                   > Cardinality(IndicatorsIn(medical_indicators))
            THEN "vehicles"
            ELSE "props"

\* C18 (amended): the wheelchair is a vehicle when the vehicle score is
\* strictly higher than the medical score and at least 2, and a prop
\* otherwise, so on a tie; the context {pushes, street, speed} gives vehicles
\* and the context {medical, patient, sits} gives props.
C18_HigherScoreOfTwoWins ==
    WheelchairClassified =>
        /\ clf_ret[1][1] =
              IF /\ Cardinality(IndicatorsIn(vehicle_indicators))
                       > Cardinality(IndicatorsIn(medical_indicators))
                 /\ Cardinality(IndicatorsIn(vehicle_indicators)) >= 2
              THEN "vehicles"
              ELSE "props"
        /\ clf_text = {<<"pushes">>, <<"street">>, <<"speed">>}
              => clf_ret[1][1] = "vehicles"
        /\ clf_text = {<<"medical">>, <<"patient">>, <<"sits">>}
              => clf_ret[1][1] = "props"

\* the wheelchair was classified as a vehicle in the context {pushes, street,
\* speed}
C18_Witness ==
    /\ WheelchairClassified
    /\ clf_text = {<<"pushes">>, <<"street">>, <<"speed">>}
    /\ clf_ret[1][1] = "vehicles"

\* C19: in a breakdown no item is in more than one of the lists of props, of
\* set dressing and of vehicles.
C19_OneCategoryPerItem ==
    clf_breakdown # None =>
        LET bd == clf_breakdown[1]
        IN  /\ Range(bd.props_list) \cap Range(bd.vehicles) = {}
            /\ Range(bd.props_list) \cap Range(bd.set_dressing) = {}
            /\ Range(bd.vehicles) \cap Range(bd.set_dressing) = {}

\* the breakdown of a scene has an item in each of the three lists
C19_Witness ==
    /\ clf_breakdown # None
    /\ clf_breakdown[1].props_list # <<>>
    /\ clf_breakdown[1].vehicles # <<>>
    /\ clf_breakdown[1].set_dressing # <<>>

\* the item, in the context, matches the category of TAXONOMY: one of its
\* patterns matches and, but for props, one of its keywords is in the context
MatchesCategory(k, item, context) ==
    \/ /\ AnyMatches(TAXONOMY[k].patterns, item)
       /\ \/ TAXONOMY[k].category = "props"
          \/ \E kw \in TAXONOMY[k].keywords : Contains(kw, context)
    \/ AnyMatches(TAXONOMY[k].medical_devices, item)

\* the first category the item matches in the order vehicles, props,
\* set_dressing; props when it matches none
FirstOfVehiclesPropsSetDressing(item, context) ==
    IF MatchesCategory(3, item, context) THEN "vehicles"
    ELSE IF MatchesCategory(1, item, context) THEN "props"
    ELSE IF MatchesCategory(2, item, context) THEN "set_dressing"
    ELSE "props"

\* C20: an item other than the wheelchair gets the first category it matches
\* in the order vehicles, props, set_dressing; and a car of a scene whose text
\* has a keyword of vehicles is in the vehicles of the breakdown of the scene,
\* not in its props.
C20_VehiclesFirst ==
    /\ (clf_ret # None /\ clf_item # <<"chair", "moving">>) =>
          clf_ret[1][1] = FirstOfVehiclesPropsSetDressing(clf_item, clf_text)
    /\ (/\ clf_breakdown # None
        /\ <<"car">> \in clf_text
        /\ <<"enters", "into">> \in clf_text) =>
          /\ <<"car">> \in Range(clf_breakdown[1].vehicles)
          /\ <<"car">> \notin Range(clf_breakdown[1].props_list)

----------------------------------------------------------------------------
(* Claims about the accounting of the cache manager and of the job store *)

\* C30: after any sequence of get, set (also onto a key that is in the
\* cache), expiry and clear, cache_size_bytes is the sum of the sizes recorded
\* in the entries of the cache.
C30_SizeIsSumOfEntries ==
    cm_cache_size_bytes = SumSizes(cm_cache, DOMAIN cm_cache)

\* the jobs a step of create_job deletes from the store
Evicted == (DOMAIN pbs_jobs \cup {pbs_ctr'}) \ DOMAIN pbs_jobs'

\* C29: after every create_job of the basic job store the number of stored
\* jobs is at most max_jobs, the job just created is stored, and the jobs
\* deleted to respect the bound are the oldest by creation time: as many as
\* the store exceeded the bound by, none of them created after a job that is
\* kept and none of the kept jobs changed.
C29_StoreBoundedByEvictingOldest ==
    [][pbs_ctr' # pbs_ctr =>
          /\ Cardinality(DOMAIN pbs_jobs') <= pbs_max_jobs
          /\ pbs_ctr' \in DOMAIN pbs_jobs'
          /\ pbs_jobs'[pbs_ctr'].created_at = now
          /\ Cardinality(Evicted) =
                Max0(Cardinality(DOMAIN pbs_jobs) + 1 - pbs_max_jobs)
          /\ \A e \in Evicted, k \in DOMAIN pbs_jobs' :
                pbs_jobs[e].created_at <= pbs_jobs'[k].created_at
          /\ \A k \in DOMAIN pbs_jobs' \cap DOMAIN pbs_jobs :
                pbs_jobs'[k] = pbs_jobs[k]]_vars

\* the store is full, the two oldest jobs are gone, and the oldest job kept
\* was created before the clock moved on
C29_Witness ==
    /\ Cardinality(DOMAIN pbs_jobs) = max_jobs
    /\ pbs_ctr = max_jobs + 2
    /\ DOMAIN pbs_jobs = 3..pbs_ctr
    /\ pbs_jobs[3].created_at < pbs_jobs[pbs_ctr].created_at

----------------------------------------------------------------------------
(* Claims about the life of the context graph *)

\* the numbers of the analysed scenes whose marker line satisfies Has, in the
\* order of the document
NumbersOfAnalysed(Has(_)) ==
    LET sel == SelectSeq(Succeeded, Has)
    IN  [i \in 1..Len(sel) |-> sel[i].number]

\* the graph holds one registration of every analysed scene, in the order of
\* the document, and nothing else
GraphIsLogOfAnalysedScenes ==
    /\ \A i \in 1..Len(Succeeded) :
          /\ Succeeded[i].location \in DOMAIN location_history
          /\ Range(Succeeded[i].cast) \subseteq DOMAIN character_timeline
          /\ Range(Succeeded[i].props) \subseteq DOMAIN prop_registry
    /\ \A loc \in DOMAIN location_history :
          location_history[loc] = NumbersOfAnalysed(LAMBDA m : m.location = loc)
    /\ \A prop \in DOMAIN prop_registry :
          prop_registry[prop]
              = NumbersOfAnalysed(LAMBDA m : prop \in Range(m.props))
    /\ \A char \in DOMAIN character_timeline :
          [i \in 1..Len(character_timeline[char]) |->
              character_timeline[char][i].scene]
              = NumbersOfAnalysed(LAMBDA m : char \in Range(m.cast))

\* a step keeps every list of the dict as a prefix of the list it becomes
AppendOnly(d, e) ==
    \A k \in DOMAIN d :
        /\ k \in DOMAIN e
        /\ Len(d[k]) <= Len(e[k])
        /\ SubSeq(e[k], 1, Len(d[k])) = d[k]

\* C24: during a run the graph is an append-only log in the order of the
\* document: register_scene is called once for each analysed scene, in the
\* order of the scenes in the document, and a call only appends to the
\* timelines of the characters, the registries of the props and the history
\* of the locations.
C24_GraphIsAppendOnlyLog ==
    /\ []GraphIsLogOfAnalysedScenes
    /\ [][/\ AppendOnly(character_timeline, character_timeline')
          /\ AppendOnly(prop_registry, prop_registry')
          /\ AppendOnly(location_history, location_history')]_vars

\* three scenes are registered, the envelope and a character in all of them
C24_Witness ==
    /\ Len(scenes) = 3
    /\ "envelope" \in DOMAIN prop_registry
    /\ Len(prop_registry["envelope"]) = 3
    /\ \E char \in DOMAIN character_timeline : Len(character_timeline[char]) = 3
    /\ \E loc \in DOMAIN location_history : Len(location_history[loc]) = 2

\* the continuity checks the service has answered, the last one included
AnsweredChecks ==
    IF content # <<>> /\ scene_idx > Len(scenes_data)
    THEN Append(finished_runs, [content |-> content, scenes |-> scenes])
    ELSE finished_runs

\* C28: the continuity state lives for one run over a script: the
\* continuation results and the continuity notes of a document do not depend
\* on the documents analysed before it by the same process, so two analyses
\* of the same document give the same breakdowns.
C28_SameDocumentSameBreakdowns ==
    \A i, j \in 1..Len(AnsweredChecks) :
        AnsweredChecks[i].content = AnsweredChecks[j].content =>
            AnsweredChecks[i].scenes = AnsweredChecks[j].scenes

(***************************************************************************)
(* Part 7: the block parser of the breakdown engine                        *)
(* (src/breakdown_engine.py, RobustParser).                                *)
(*                                                                         *)
(* A line of text is a sequence of pieces.  A piece is one of the words    *)
(* the header pattern removes ("night", "day", "interior", "exterior",     *)
(* and the dash), a blank " " or a letter "x", which are one character     *)
(* each, or "Scene 1", the keyword and the number of a header line.  A     *)
(* block is what parse() cuts at the start of a match of the header        *)
(* pattern: the empty or blank lines the pattern runs over before the      *)
(* header line (lead), the header line, of which tail is what follows the  *)
(* number, and the lines after the header line (rest).                     *)
(***************************************************************************)

MaxMeta == 4
MaxLines == 2
MaxBlankLines == 2

\* the alternatives of the pattern re.sub removes from the header
ClassifierTokens == {"night", "day", "interior", "exterior", "-"}

\* re.sub(pattern, '', meta): the header without the classifier tokens
RemoveTokens(meta) == SelectSeq(meta, LAMBDA p : p \notin ClassifierTokens)

\* str.strip(): the line without its leading and trailing blanks
RECURSIVE Strip(_)
Strip(s) ==
    IF s # <<>> /\ Head(s) = " " THEN Strip(Tail(s))
    ELSE IF s # <<>> /\ s[Len(s)] = " " THEN Strip(SubSeq(s, 1, Len(s) - 1))
    ELSE s

\* header.group(2) of SCENE_HEADER_PATTERN: the \s* after the number runs
\* over blanks and line ends, and (.*) is what is left of the line it stops
\* in: the header line when something other than blanks follows the number,
\* else the first line after it that is not blank, else nothing
meta_of(block) ==
    LET RECURSIVE LStrip(_)
        LStrip(s) == IF s # <<>> /\ Head(s) = " " THEN LStrip(Tail(s)) ELSE s
        after == <<block.tail>> \o block.rest
        reached == {i \in 1..Len(after) : LStrip(after[i]) # <<>>}
    IN  IF reached = {} THEN <<>>
        ELSE LStrip(after[CHOOSE i \in reached : \A j \in reached : i <= j])

\* block.split('\n'), the block being text[match.start():end]: the match
\* starts at the first of the blank lines before the header line
lines_of(block) ==
    [i \in 1..block.lead |-> <<>>] \o <<<<"Scene 1">> \o block.tail>> \o block.rest

\* the location _process_block leaves in the scene: SceneData starts with
\* the empty location, and the two branches are the only assignments
location_of(block) ==
    LET raw_loc == Strip(RemoveTokens(meta_of(block)))
        lines == lines_of(block)
    IN  IF Len(raw_loc) > 3 THEN raw_loc
        ELSE IF Len(lines) > 1 THEN Strip(lines[2])
        ELSE <<>>

\* _process_block(header, block), as far as the header is concerned
_process_block ==
    /\ hdr_block # None
    /\ hdr_location = None
    /\ hdr_location' = Some(location_of(hdr_block[1]))
    /\ UNCHANGED <<hdr_block, an_in, an_pc, an_ran, an_out>>
    /\ UNCHANGED <<jm_vars, svc_vars, pbs_vars, cm_vars, run_vars, clf_vars, th_vars, now>>

InitHeader ==
    LET \* the blocks given to the parser: up to MaxBlankLines blank lines before
        \* the header line, up to MaxMeta pieces after the number, and up to
        \* MaxLines following lines that are empty, blank or text
        Blocks ==
            LET SeqsUpTo(S, n) == UNION {[1..k -> S] : k \in 0..n}
                HeaderPieces == {"night", "-", " ", "x"}
                FollowingLines == {<<>>, <<" ">>, <<"x">>, <<" ", "x", "x", " ">>,
                                   <<"night", " ", "x", "x", "x", "x">>}
            IN  [lead : 0..MaxBlankLines,
                 tail : SeqsUpTo(HeaderPieces, MaxMeta),
                 rest : SeqsUpTo(FollowingLines, MaxLines)]
    IN
    /\ NewAdvancedJobManager(default_max_concurrent_jobs)
    /\ NewServiceJobManager
    /\ NewBrainJobManager
    /\ NewAdvancedCacheManager(default_max_size_mb, default_default_ttl)
    /\ NewRun(<<>>)
    /\ NewPropClassifier
    /\ hdr_block \in {Some(b) : b \in Blocks}
    /\ hdr_location = None
    /\ an_in = None
    /\ an_pc = "idle"
    /\ an_ran = <<>>
    /\ an_out = None
    /\ NoThreads
    /\ now = 0

(***************************************************************************)
(* Claims about the location of a parsed scene                             *)
(***************************************************************************)

\* the "unspecified" sentinel, as a location
UnspecifiedLocation == <<"unspecified">>

\* C23: the location of a parsed scene is never the empty string: when the
\* header without its classifier tokens has 3 characters or fewer the
\* location is the second line of the block, and when that line is missing
\* or empty it is the "unspecified" sentinel.
C23_LocationNeverEmpty ==
    hdr_location # None =>
        LET block == hdr_block[1]
            raw_loc == Strip(RemoveTokens(meta_of(block)))
            lines == lines_of(block)
            second == IF Len(lines) > 1 THEN Strip(lines[2]) ELSE <<>>
            location == hdr_location[1]
        IN  /\ location # <<>>
            /\ Len(raw_loc) <= 3 =>
                  location = IF second # <<>> THEN second
                             ELSE UnspecifiedLocation

(***************************************************************************)
(* Part 8: the analysis of one scene by the two scene parsers              *)
(* (src/ultimate_breakdown_system.py, the three passes, and                *)
(* src/revolutionary_breakdown_system_v4.py, the gathered analyzers), and  *)
(* their legal alerts.                                                     *)
(*                                                                         *)
(* A text is a set of phrases, as in part 6; "name in text" is Contains.   *)
(* The name Tamer Hosn of the knowledge base is a part of the name Tamer   *)
(* Hosny, see Spelling.                                                    *)
(* The alerts of a scan are a set: the code builds the list by iterating   *)
(* over sets of names, and no two alerts of a scan are equal.              *)
(***************************************************************************)

\* KnowledgeBase of the three-pass parser: some of its names
KnowledgeBase ==
    [CELEBRITY_NAMES |-> {<<"Amr", "Diab">>, <<"Tamer", "Hosny">>,
                          <<"Tamer", "Hosn">>},
     BRAND_NAMES |-> {<<"iPhone">>, <<"Samsung">>},
     SONG_TITLES |-> {<<"Nour", "El_Ain">>, <<"Tamally", "Maak">>}]

\* KnowledgeBase of the v4 parser: some of its names; it has no song titles
KnowledgeBaseV4 ==
    [CELEBRITY_NAMES |-> {<<"Amr", "Diab">>, <<"Tamer", "Hosny">>},
     BRAND_NAMES |-> {<<"iPhone">>, <<"Samsung">>}]

\* the alerts for the names found in the text
AlertsFor(alert_type, names, severity, text) ==
    {[alert_type |-> alert_type, entity_name |-> name, severity |-> severity] :
        name \in {n \in names : Contains(n, text)}}

\* music_keywords of scan_for_alerts
music_keywords ==
    {<<"yughanni">>, <<"ughniya">>, <<"ighniya">>, <<"musiqa">>, <<"cassette">>}

\* LegalAlertSystem.scan_for_alerts(text)
scan_for_alerts(text) ==
    LET alerts ==
            AlertsFor("celebrity", KnowledgeBase.CELEBRITY_NAMES, "warning", text)
                \cup AlertsFor("brand", KnowledgeBase.BRAND_NAMES, "warning", text)
                \cup AlertsFor("music", KnowledgeBase.SONG_TITLES, "critical", text)
    IN  IF /\ \E kw \in music_keywords : Contains(kw, text)
           /\ ~ \E alert \in alerts : alert.alert_type = "music"
        THEN alerts \cup {[alert_type |-> "music",
                           entity_name |-> <<"musical", "content">>,
                           severity |-> "warning"]}
        ELSE alerts

\* LegalAnalyzer.analyze(text, context) of the v4 parser
LegalAnalyzer_analyze(text, enable_legal_alerts) ==
    IF ~enable_legal_alerts
    THEN {}
    ELSE AlertsFor("celebrity", KnowledgeBaseV4.CELEBRITY_NAMES, "warning", text)
             \cup AlertsFor("brand", KnowledgeBaseV4.BRAND_NAMES, "critical", text)

\* the input of the analysis in progress
Scene == an_in[1]

\* the analyzers of the two parsers: the three-pass parser extracts the
\* cast in pass 1 and runs six steps in pass 2 (the effects are those of the
\* rule based step); the v4 parser gathers four analyzers, awaits the
\* wardrobe analyzer and generates the summary
Analyzers(system) ==
    IF system = "ultimate"
    THEN {"cast", "synopsis", "props", "wardrobe", "cinematic", "legal",
          "effects"}
    ELSE {"cast", "props", "effects", "legal", "wardrobe", "synopsis"}

\* the result of running an analyzer of the scene: an exception when it is
\* the one that raises, and else its output, of which the alerts are kept
Run(analyzer, alerts) ==
    [analyzer |-> analyzer,
     failed |-> analyzer \in Scene.raises,
     alerts |-> IF analyzer \in Scene.raises THEN {} ELSE alerts]

\* the analyzers among the first n of the list that run before one raises
RECURSIVE RunInOrder(_, _)
RunInOrder(list, n) ==
    IF n = 0 THEN <<>>
    ELSE LET before == RunInOrder(list, n - 1)
         IN  IF \E i \in 1..Len(before) : before[i].failed THEN before
             ELSE Append(before, list[n])

\* the breakdown made of the results: the legal alerts and the analyzers
\* whose output it holds; the v4 parser builds its breakdown without the
\* result of the effects analyzer
BreakdownOf(results) ==
    LET held == {j \in 1..Len(results) :
                    /\ ~results[j].failed
                    /\ ~(Scene.system = "v4" /\ results[j].analyzer = "effects")}
    IN  [legal_alerts |-> UNION {results[i].alerts : i \in 1..Len(results)},
         analyzers |-> {results[i].analyzer : i \in held}]

\* _pass1_extract: the header, the cast and the type of the scene; an
\* exception leaves analyze_scene
UltimatePass1 ==
    /\ an_in # None
    /\ Scene.system = "ultimate"
    /\ an_pc = "start"
    /\ an_ran' = <<Run("cast", {})>>
    /\ an_pc' = IF an_ran'[1].failed THEN "raised" ELSE "extracted"
    /\ UNCHANGED <<hdr_block, hdr_location, an_in, an_out>>
    /\ UNCHANGED <<jm_vars, svc_vars, pbs_vars, cm_vars, run_vars, clf_vars, th_vars, now>>

\* _pass2_enrich: the six steps in the order of the code; nothing catches
\* an exception, which leaves the pass and analyze_scene
UltimatePass2 ==
    /\ an_in # None
    /\ Scene.system = "ultimate"
    /\ an_pc = "extracted"
    /\ LET steps == <<Run("synopsis", {}), Run("props", {}),
                      Run("wardrobe", {}), Run("cinematic", {}),
                      Run("legal", scan_for_alerts(Scene.text)),
                      Run("effects", {})>>
       IN  an_ran' = an_ran \o RunInOrder(steps, Len(steps))
    /\ an_pc' = IF \E i \in 1..Len(an_ran') : an_ran'[i].failed
                 THEN "raised" ELSE "enriched"
    /\ UNCHANGED <<hdr_block, hdr_location, an_in, an_out>>
    /\ UNCHANGED <<jm_vars, svc_vars, pbs_vars, cm_vars, run_vars, clf_vars, th_vars, now>>

\* a parser that refines a scene it has not enriched
RefineUnenriched ==
    /\ an_in # None
    /\ Scene.system = "ultimate"
    /\ an_pc \in {"extracted", "enriched"}
    /\ an_pc' = "refined"
    /\ \E order \in IterationOrders(Range(Scene.block.cast)) :
          register_scene(_pass3_refine(
              Extracted(Scene.block.number, <<Scene.block>>), order))
    /\ an_out' = Some(BreakdownOf(an_ran))
    /\ UNCHANGED <<hdr_block, hdr_location, an_in, an_ran>>
    /\ UNCHANGED <<content, scenes_data, scene_idx, scenes, finished_runs>>
    /\ UNCHANGED <<jm_vars, svc_vars, pbs_vars, cm_vars, clf_vars, th_vars, now>>

\* _pass3_refine, register_scene, which enters the scene in the context
\* graph of the parser, and the return of the breakdown
UltimatePass3 ==
    /\ an_in # None
    /\ Scene.system = "ultimate"
    /\ an_pc = "enriched"
    /\ an_pc' = "refined"
    /\ \E order \in IterationOrders(Range(Scene.block.cast)) :
          register_scene(_pass3_refine(
              Extracted(Scene.block.number, <<Scene.block>>), order))
    /\ an_out' = Some(BreakdownOf(an_ran))
    /\ UNCHANGED <<hdr_block, hdr_location, an_in, an_ran>>
    /\ UNCHANGED <<content, scenes_data, scene_idx, scenes, finished_runs>>
    /\ UNCHANGED <<jm_vars, svc_vars, pbs_vars, cm_vars, clf_vars, th_vars, now>>

\* v4: analyze_scene up to "await asyncio.gather(...)": the header is read
\* into the context, the coroutines of the cast, prop, effects and legal
\* analyzers are handed to gather, which makes a task of each, and
\* analyze_scene waits for them
V4Header ==
    /\ an_in # None
    /\ Scene.system = "v4"
    /\ an_pc = "start"
    /\ an_pc' = "gathering"
    /\ UNCHANGED <<hdr_block, hdr_location, an_in, an_ran, an_out>>
    /\ UNCHANGED <<jm_vars, svc_vars, pbs_vars, cm_vars, run_vars, clf_vars, th_vars, now>>

\* v4: the event loop runs the next task of the gather, in the order cast,
\* prop, effects, legal; an analyzer does not await, so its task runs to its
\* end; return_exceptions=True makes an exception the result of its
\* analyzer.  With the fourth result the gather is done.
V4Gather ==
    /\ an_in # None
    /\ Scene.system = "v4"
    /\ an_pc = "gathering"
    /\ LET tasks == <<Run("cast", {}), Run("props", {}), Run("effects", {}),
                      Run("legal", LegalAnalyzer_analyze(
                                       Scene.text, Scene.enable_legal_alerts))>>
       IN  /\ an_ran' = Append(an_ran, tasks[Len(an_ran) + 1])
           /\ an_pc' = IF Len(an_ran') = Len(tasks) THEN "gathered"
                        ELSE "gathering"
    /\ UNCHANGED <<hdr_block, hdr_location, an_in, an_out>>
    /\ UNCHANGED <<jm_vars, svc_vars, pbs_vars, cm_vars, run_vars, clf_vars, th_vars, now>>

\* v4: analyze_scene goes on with the results of the gather: the awaited
\* wardrobe analyzer, then the breakdown with the summary of
\* _generate_summary; an exception of either is logged and raised again
V4Build ==
    /\ an_in # None
    /\ Scene.system = "v4"
    /\ an_pc = "gathered"
    /\ LET steps == <<Run("wardrobe", {}), Run("synopsis", {})>>
       IN  an_ran' = an_ran \o RunInOrder(steps, Len(steps))
    /\ LET raised == \E i \in 5..Len(an_ran') : an_ran'[i].failed
       IN  /\ an_pc' = IF raised THEN "raised" ELSE "returned"
           /\ an_out' = IF raised THEN None ELSE Some(BreakdownOf(an_ran'))
    /\ UNCHANGED <<hdr_block, hdr_location, an_in>>
    /\ UNCHANGED <<jm_vars, svc_vars, pbs_vars, cm_vars, run_vars, clf_vars, th_vars, now>>

NextScene ==
    \/ UltimatePass1
    \/ UltimatePass2
    \/ UltimatePass3
    \/ V4Header
    \/ V4Gather
    \/ V4Build

\* a scene given to one of the two parsers: its header line is bare or
\* names a location, and the scene has a character and a prop or none; its
\* text mentions celebrities, a brand, a song title, a music keyword, or none
\* of them; at most one of the parser's analyzers raises; the v4 config
\* enables legal alerts or not, and a legal analyzer that is not enabled
\* returns before it does anything that raises
InitScene ==
    LET Mentions == {<<"Amr", "Diab">>, <<"Tamer", "Hosny">>, <<"iPhone">>,
                     <<"Nour", "El_Ain">>, <<"yughanni">>, <<"moves">>}
        Scenes ==
            {s \in [system : {"ultimate", "v4"}, text : SUBSET Mentions,
                    block : {[kind |-> "marker", number |-> 1,
                              location |-> "unspecified", day_night |-> "day",
                              cast |-> <<>>, props |-> <<>>,
                              malformed |-> FALSE],
                             [kind |-> "marker", number |-> 1,
                              location |-> "office", day_night |-> "day",
                              cast |-> <<"A">>, props |-> <<"envelope">>,
                              malformed |-> FALSE]},
                    raises : {{}} \cup {{a} : a \in Analyzers("ultimate")},
                    enable_legal_alerts : BOOLEAN] :
                /\ s.raises \subseteq Analyzers(s.system)
                /\ s.system = "ultimate" => s.enable_legal_alerts
                /\ "legal" \in s.raises => s.enable_legal_alerts}
    IN
    /\ NewAdvancedJobManager(default_max_concurrent_jobs)
    /\ NewServiceJobManager
    /\ NewBrainJobManager
    /\ NewAdvancedCacheManager(default_max_size_mb, default_default_ttl)
    /\ NewRun(<<>>)
    /\ NewPropClassifier
    /\ hdr_block = None
    /\ hdr_location = None
    /\ an_in \in {Some(s) : s \in Scenes}
    /\ an_pc = "start"
    /\ an_ran = <<>>
    /\ an_out = None
    /\ NoThreads
    /\ now = 0

(***************************************************************************)
(* Claims about the legal alerts and the analysis of one scene             *)
(***************************************************************************)

\* the alert is a hit of a song title
SongTitleHit(alert) ==
    alert.alert_type = "music" /\ alert.entity_name \in KnowledgeBase.SONG_TITLES

\* C21: in the breakdown of a scene every legal alert for a song title has
\* severity critical and every other legal alert (celebrity, brand, generic
\* music) has severity warning.
C21_OnlySongTitlesAreCritical ==
    an_out # None =>
        \A alert \in an_out[1].legal_alerts :
            alert.severity = IF SongTitleHit(alert) THEN "critical" ELSE "warning"

\* C22: when legal alerts are enabled and the text of the scene has a music
\* keyword, the breakdown has a music alert, and when no song title is in
\* the text it has exactly one music alert, the generic one.
C22_MusicKeywordGivesMusicAlert ==
    (/\ an_out # None
     /\ Scene.enable_legal_alerts
     /\ \E kw \in music_keywords : Contains(kw, Scene.text))
    => LET music == {alert \in an_out[1].legal_alerts :
                        alert.alert_type = "music"}
       IN  /\ music # {}
           /\ (~ \E song \in KnowledgeBase.SONG_TITLES :
                    Contains(song, Scene.text))
              => /\ Cardinality(music) = 1
                 /\ \A alert \in music : ~SongTitleHit(alert)

\* the analysis of the scene has ended, with a breakdown or an exception
AnalysisEnded == an_pc \in {"refined", "returned", "raised"}

\* C25: when one analyzer of a scene fails, the scene still yields a
\* breakdown, which holds the output of every other analyzer of the parser
\* and not that of the failed one.
C25_AnalyzerFailureIsLocal ==
    (an_in # None /\ Scene.raises # {} /\ AnalysisEnded)
    => /\ an_out # None
       /\ an_out[1].analyzers = Analyzers(Scene.system) \ Scene.raises

\* the position of the analyzer among those run, 0 when it has not run
PlaceOf(analyzer) ==
    IF \E i \in 1..Len(an_ran) : an_ran[i].analyzer = analyzer
    THEN CHOOSE i \in 1..Len(an_ran) : an_ran[i].analyzer = analyzer
    ELSE 0

\* the state of the scene moves one step forward.  In the three-pass parser
\* along start, extracted, enriched, refined, or the analysis raises in pass
\* 1 or 2.  The v4 parser has one pass and no such states: its analyze_scene
\* moves along start, gathering, gathered, returned, or raises after the
\* gather.
OneStateForward ==
    (an_in # None /\ an_pc' # an_pc)
    => IF Scene.system = "ultimate"
       THEN \/ <<an_pc, an_pc'>> \in {<<"start", "extracted">>,
                                     <<"extracted", "enriched">>,
                                     <<"enriched", "refined">>}
            \/ an_pc' = "raised" /\ an_pc \in {"start", "extracted"}
       ELSE \/ <<an_pc, an_pc'>> \in {<<"start", "gathering">>,
                                     <<"gathering", "gathered">>,
                                     <<"gathered", "returned">>}
            \/ an_pc' = "raised" /\ an_pc = "gathered"

\* the wardrobe analyzer has run only after the cast analyzer, in the v4
\* parser only after the gather that runs the cast analyzer is done, and a
\* breakdown is returned only by a scene in its last state
WardrobeAfterCast ==
    /\ PlaceOf("wardrobe") > 0 => PlaceOf("cast") \in 1..(PlaceOf("wardrobe") - 1)
    /\ (an_in # None /\ Scene.system = "v4" /\ PlaceOf("wardrobe") > 0)
       => /\ PlaceOf("wardrobe") = 5
          /\ an_pc \in {"returned", "raised"}
    /\ an_out # None
       => an_pc = IF Scene.system = "ultimate" THEN "refined" ELSE "returned"

\* C26: a scene of the three-pass parser passes through the states
\* extracted, enriched, refined in that order, none skipped and none entered
\* twice; a scene of the v4 parser, which has no such states, passes through
\* header, gather and build in that order; in both parsers the wardrobe
\* analyzer starts only after the result of the cast analyzer is there.
C26_StatesInOrderWardrobeAfterCast ==
    []WardrobeAfterCast /\ [][OneStateForward]_vars

\* a scene has reached its last state with its wardrobe analyzer run after
\* its cast analyzer: in the three-pass parser as the fourth step, after the
\* cast of pass 1; in the v4 parser as the fifth, after the four of the gather
C26_Witness ==
    /\ an_in # None
    /\ an_out # None
    /\ PlaceOf("cast") = 1
    /\ \/ /\ Scene.system = "ultimate"
          /\ an_pc = "refined"
          /\ PlaceOf("wardrobe") = 4
       \/ /\ Scene.system = "v4"
          /\ an_pc = "returned"
          /\ PlaceOf("wardrobe") = 5

(***************************************************************************)
(* Part 9: threads calling the AdvancedJobManager of                       *)
(* src/ultimate_advanced_python_brain_service.py.                          *)
(*                                                                         *)
(* create_job and update_job_status run inside "with self.lock";           *)
(* get_next_job_from_queue takes no lock.  A step of a thread is one or    *)
(* more statements of its call; the interpreter may switch threads         *)
(* between any two statements.                                             *)
(***************************************************************************)

MaxThreadJobs == 3

\* the thread moves on in its call
Goto(t, pc, job_id, status, at) ==
    threads' = [threads EXCEPT
                   ![t] = [pc |-> pc, job_id |-> job_id, status |-> status, at |-> at]]

\* the call of the thread returns val, or raises
Return(t, op, val, raised) ==
    /\ threads' = [threads EXCEPT ![t] = Idle]
    /\ ret' = [op |-> op, val |-> val, raised |-> raised]

\* a thread calls an operation of the manager.  "with self.lock" waits until
\* the lock is free and takes it.  The callers follow the lifecycle: they
\* ask processing for a pending job and completed for a processing one.
Call(t) ==
    /\ threads[t] = Idle
    /\ \/ /\ lock = None
          /\ lock' = Some(t)
          /\ \/ /\ uuid_ctr < MaxThreadJobs
                /\ \E request \in RequestsJM :
                      Goto(t, "create_job", 0, request.priority, 0)
             \/ \E job_id \in DOMAIN jobs, status \in {PROCESSING, COMPLETED} :
                   /\ jobs[job_id].status =
                          IF status = PROCESSING THEN PENDING ELSE PROCESSING
                   /\ Goto(t, "update_job_status", job_id, status, 0)
       \/ /\ Goto(t, "get_next_job_from_queue", 0, "", 0)
          /\ UNCHANGED lock
    /\ UNCHANGED <<jobs, job_queue, job_counts, job_priorities, active_jobs,
                   max_concurrent_jobs, cache, uuid_ctr, ret, now>>
    /\ UNCHANGED <<run_vars, clf_vars, an_vars, svc_vars, pbs_vars, cm_vars>>

\* create_job: the job, its counter and its priority are stored; then
\* _add_to_queue_by_priority, one step for each turn of its loop and one for
\* the insert or the append.  A turn of "for i, queued_job_id in
\* enumerate(self.job_queue)" asks the list iterator for the entry at its
\* index i, which ends the loop when i has reached the length the list has
\* at that moment, and tests the priority of the entry; job_priorities is
\* changed under the lock only, so the test sees what the turn has read.
\* get_next_job_from_queue, which takes no lock, may pop the head between two
\* turns: the iterator then passes over the entry that moves to the index it
\* has left.  list.insert(i, x) appends when i is beyond the end.
CreateJobStep(t) ==
    LET job_id == threads[t].job_id
        priority_weight == PriorityWeight(threads[t].status)
        i == threads[t].at
    IN  /\ \/ /\ threads[t].pc = "create_job"
              /\ uuid_ctr' = uuid_ctr + 1
              /\ jobs' = jobs @@ (uuid_ctr' :>
                             [status |-> PENDING, priority |-> threads[t].status,
                              cache_key |-> None])
              /\ job_counts' = [job_counts EXCEPT ![PENDING] = @ + 1]
              /\ job_priorities' = job_priorities @@ (uuid_ctr' :> priority_weight)
              /\ Goto(t, "for", uuid_ctr', threads[t].status, 0)
              /\ UNCHANGED <<job_queue, lock, ret>>
           \/ /\ threads[t].pc = "for"
              /\ IF i >= Len(job_queue)
                 THEN Goto(t, "append", job_id, threads[t].status, i)
                 ELSE IF PriorityOf(job_priorities, job_queue[i + 1]) < priority_weight
                      THEN Goto(t, "insert", job_id, threads[t].status, i)
                      ELSE Goto(t, "for", job_id, threads[t].status, i + 1)
              /\ UNCHANGED <<jobs, job_queue, job_counts, job_priorities,
                             uuid_ctr, lock, ret>>
           \/ /\ threads[t].pc = "insert"
              /\ job_queue' =
                     IF i >= Len(job_queue) THEN Append(job_queue, job_id)
                     ELSE SubSeq(job_queue, 1, i) \o <<job_id>>
                              \o SubSeq(job_queue, i + 1, Len(job_queue))
              /\ lock' = None
              /\ Return(t, "create_job", job_id, None)
              /\ UNCHANGED <<jobs, job_counts, job_priorities, uuid_ctr>>
           \/ /\ threads[t].pc = "append"
              /\ job_queue' = Append(job_queue, job_id)
              /\ lock' = None
              /\ Return(t, "create_job", job_id, None)
              /\ UNCHANGED <<jobs, job_counts, job_priorities, uuid_ctr>>
        /\ UNCHANGED <<active_jobs, max_concurrent_jobs, cache, now>>
        /\ UNCHANGED <<run_vars, clf_vars, an_vars, svc_vars, pbs_vars, cm_vars>>

\* update_job_status, in three steps: the status and the counters are set;
\* the test "job_id in self.job_queue" of the branch of the status; and
\* job_queue.remove(job_id), which raises ValueError when the id has left
\* the queue since the test.  The exception leaves "with self.lock", which
\* releases the lock.
UpdateJobStatusStep(t) ==
    LET job_id == threads[t].job_id
        status == threads[t].status
    IN  /\ \/ /\ threads[t].pc = "update_job_status"
              /\ jobs' = [jobs EXCEPT ![job_id].status = status]
              /\ job_counts' = CountsAfter(job_counts, jobs[job_id].status, status)
              /\ Goto(t, "test_queued", job_id, status, 0)
              /\ UNCHANGED <<job_queue, lock, ret>>
           \/ /\ threads[t].pc = "test_queued"
              /\ IF /\ status \in {PROCESSING, COMPLETED, FAILED, CANCELLED}
                    /\ InQueue(job_queue, job_id)
                 THEN /\ Goto(t, "remove", job_id, status, 0)
                      /\ UNCHANGED <<lock, ret>>
                 ELSE /\ lock' = None
                      /\ Return(t, "update_job_status", None, None)
              /\ UNCHANGED <<jobs, job_counts, job_queue>>
           \/ /\ threads[t].pc = "remove"
              /\ IF InQueue(job_queue, job_id)
                 THEN /\ job_queue' = ListRemove(job_queue, job_id)
                      /\ Return(t, "update_job_status", None, None)
                 ELSE /\ Return(t, "update_job_status", None, Some("ValueError"))
                      /\ UNCHANGED job_queue
              /\ lock' = None
              /\ UNCHANGED <<jobs, job_counts>>
        /\ UNCHANGED <<job_priorities, active_jobs, max_concurrent_jobs, cache,
                       uuid_ctr, now>>
        /\ UNCHANGED <<run_vars, clf_vars, an_vars, svc_vars, pbs_vars, cm_vars>>

\* get_next_job_from_queue, in four steps, none of them under the lock: the
\* test of the loop; the read of the head self.job_queue[0], which raises
\* IndexError when the list has been emptied since the test; the test of
\* the head, which is returned when it is a pending job; pop(0), which
\* raises IndexError on an empty list
GetNextJobStep(t) ==
    LET job_id == threads[t].job_id
    IN  /\ \/ /\ threads[t].pc = "get_next_job_from_queue"
              /\ IF job_queue # <<>> /\ HasCapacity
                 THEN Goto(t, "read_head", 0, "", 0) /\ UNCHANGED ret
                 ELSE Return(t, "get_next_job_from_queue", None, None)
              /\ UNCHANGED job_queue
           \/ /\ threads[t].pc = "read_head"
              /\ IF job_queue = <<>>
                 THEN Return(t, "get_next_job_from_queue", None,
                             Some("IndexError"))
                 ELSE Goto(t, "test_head", Head(job_queue), "", 0) /\ UNCHANGED ret
              /\ UNCHANGED job_queue
           \/ /\ threads[t].pc = "test_head"
              /\ IF IsPendingJob(jobs, job_id)
                 THEN Return(t, "get_next_job_from_queue", Some(job_id), None)
                 ELSE Goto(t, "pop", job_id, "", 0) /\ UNCHANGED ret
              /\ UNCHANGED job_queue
           \/ /\ threads[t].pc = "pop"
              /\ IF job_queue = <<>>
                 THEN /\ Return(t, "get_next_job_from_queue", None,
                                Some("IndexError"))
                      /\ UNCHANGED job_queue
                 ELSE /\ job_queue' = Tail(job_queue)
                      /\ Goto(t, "get_next_job_from_queue", 0, "", 0)
                      /\ UNCHANGED ret
        /\ UNCHANGED <<jobs, job_counts, job_priorities, active_jobs,
                       max_concurrent_jobs, cache, uuid_ctr, lock, now>>
        /\ UNCHANGED <<run_vars, clf_vars, an_vars, svc_vars, pbs_vars, cm_vars>>

NextThreads ==
    \E t \in Threads :
        \/ Call(t)
        \/ CreateJobStep(t)
        \/ UpdateJobStatusStep(t)
        \/ GetNextJobStep(t)

(***************************************************************************)
(* Claims about the threads of the job manager                             *)
(***************************************************************************)

\* every pending job is in the queue
NoPendingJobDropped ==
    \A job_id \in DOMAIN jobs :
        jobs[job_id].status = PENDING => InQueue(job_queue, job_id)

\* the queue is in the order of the priorities, the higher first
QueueInPriorityOrder ==
    \A i, k \in 1..Len(job_queue) :
        i < k => PriorityOf(job_priorities, job_queue[i])
                     >= PriorityOf(job_priorities, job_queue[k])

\* a step that changes the jobs, the queue or the counters is taken by the
\* thread that holds the lock
ChangesUnderLock ==
    (jobs' # jobs \/ job_queue' # job_queue \/ job_counts' # job_counts)
    => \E t \in Threads : threads'[t] # threads[t] /\ lock = Some(t)

\* C27: every operation of the job manager changes the jobs, the queue and
\* the counters under the lock of the manager, so that whenever no call is
\* in progress, after any interleaving of submissions, transitions and
\* dequeues, every pending job is in the queue and the queue is in the
\* order of the priorities.
C27_OperationsUnderOneLock ==
    /\ [][ChangesUnderLock]_vars
    /\ []((\A t \in Threads : threads[t] = Idle)
             => NoPendingJobDropped /\ QueueInPriorityOrder)

----------------------------------------------------------------------------
(* Specifications *)

\* the job manager is built with one of the ConcurrencyArgs; the services are
\* as their modules build them
InitJM ==
    /\ \E m \in ConcurrencyArgs : NewAdvancedJobManager(m)
    /\ NewServiceJobManager
    /\ NewBrainJobManager
    /\ NewAdvancedCacheManager(default_max_size_mb, default_default_ttl)
    /\ NewRun(<<>>)
    /\ NewPropClassifier
    /\ NoSceneAnalysis
    /\ NoThreads
    /\ now = 0

\* the services are as their modules build them; the job manager has its
\* default max_concurrent_jobs
Init ==
    /\ NewAdvancedJobManager(default_max_concurrent_jobs)
    /\ NewServiceJobManager
    /\ NewBrainJobManager
    /\ NewAdvancedCacheManager(default_max_size_mb, default_default_ttl)
    /\ NewRun(<<>>)
    /\ NewPropClassifier
    /\ NoSceneAnalysis
    /\ NoThreads
    /\ now = 0

SpecJM == InitJM /\ [][NextJM]_vars

SpecQueue == InitJM /\ [][NextQueue]_vars

SpecSubmit == InitJM /\ [][NextSubmit]_vars

SpecProc == Init /\ [][NextProc]_vars

\* a cache manager of 1 MB whose default ttl is 3 seconds
InitCache ==
    /\ NewAdvancedJobManager(default_max_concurrent_jobs)
    /\ NewServiceJobManager
    /\ NewBrainJobManager
    /\ NewAdvancedCacheManager(1, 3)
    /\ NewRun(<<>>)
    /\ NewPropClassifier
    /\ NoSceneAnalysis
    /\ NoThreads
    /\ now = 0

SpecCache == InitCache /\ [][NextCache]_vars

SpecContinuation == InitContinuation /\ [][NextRun]_vars

SpecNotes == InitNotes /\ [][NextRun]_vars

SpecRun == InitRun /\ [][NextRun]_vars

SpecProps == InitProps /\ [][NextProps]_vars

SpecStore == Init /\ [][NextStore]_vars

SpecService == Init /\ [][NextService]_vars

SpecHeader == InitHeader /\ [][_process_block]_vars

SpecScene == InitScene /\ [][NextScene]_vars

SpecThreads == Init /\ [][NextThreads]_vars

====
